---- MODULE Spec2Model ----
(***************************************************************************)
(* Voice-message transcription pipeline of the AI interviewer bot          *)
(* (src/voice_handler.py): AudioProcessor, AssemblyAIClient and            *)
(* VoiceMessageHandler.                                                    *)
(*                                                                         *)
(* VoiceMessageHandler, and the interview session of AIInterviewerBot      *)
(* (src/telegram_bot.py).                                                  *)
(*                                                                         *)
(* The specifications that share the module:                               *)
(*   Spec            VoiceMessageHandler.process_voice_message, several    *)
(*                   concurrent invocations on one handler                 *)
(*   SpecRate        AssemblyAIClient._rate_limit under concurrent         *)
(*                   transcribe_audio callers, with a clock                *)
(*   SpecTranscribe  one AssemblyAIClient.transcribe_audio call: rate      *)
(*                   limit, validation, retry loop, result processing      *)
(*   SpecQuality     AssemblyAIClient._determine_quality on bounded inputs *)
(*   SpecPoll        one AssemblyAIClient._wait_for_completion call        *)
(*   SpecSweep       one AudioProcessor.cleanup_temp_files call            *)
(*   SpecSession     the session under handled text and voice messages     *)
(*   SpecBackoff, SpecEnrich, SpecRender, SpecSearch, SpecStats,           *)
(*   SpecDownload, SpecConvert                                             *)
(*                   one call of one function on bounded inputs            *)
(*                                                                         *)
(* Units.  Confidence is a Python float in [0,1]; it is modelled in        *)
(* hundredths (0.85 is 85).  Durations are modelled in milliseconds, the   *)
(* unit pydub reports them in before the division by 1000.0 (10 s is       *)
(* 10000).  Clock readings (time.time()) are whole seconds.                *)
(*                                                                         *)
(* Text.  A transcript text is a sequence of characters over {"a", " "}.   *)
(* An error message is a sequence of words; Python's substring test        *)
(* `phrase in message` is the contiguous-subsequence test on words.        *)
(***************************************************************************)
EXTENDS Integers, Sequences, FiniteSets, TLC

VARIABLES
    \* ---- VoiceProcessingConfig (shared by all specifications)
    config,
    \* ---- SpecQuality
    q_args,                \* the arguments of one _determine_quality call
    q_result,              \* its return value, "none" before the call
    \* ---- SpecTranscribe
    t_pc,                  \* position of the transcribe_audio call
    t_metadata,            \* the metadata dict and the file's presence
    attempt,               \* loop variable of _transcribe_with_retries
    last_error,            \* last_error of _transcribe_with_retries
    svc_log,               \* history: the service's behaviour on each attempt
    sleeps,                \* history: backoff sleeps, by attempt index
    transcript,            \* the transcript returned by the retry loop
    raised,                \* the exception raised inside transcribe_audio
    t_result,              \* the VoiceTranscriptionResult returned
    \* ---- SpecRate (also the limiter state used by SpecTranscribe)
    now,                   \* the clock, seconds
    sem_value,             \* _request_semaphore._value
    sem_waiters,           \* _request_semaphore._waiters, FIFO
    last_request_times,    \* _last_request_times
    r_pc,                  \* position of each transcribe_audio caller
    current_time,          \* current_time local of each caller in _rate_limit
    wake_at,               \* when each sleeping caller's asyncio.sleep ends
    passed_at,             \* history: when each caller's _rate_limit returned
    \* ---- Spec (process_voice_message)
    pc,                    \* position of each invocation
    msg,                   \* the update each invocation was given
    temp_files,            \* temp_files local of each invocation
    disk,                  \* paths present in the temp directory
    created,               \* history: paths each invocation wrote to disk
    unlink_failed,         \* history: a deletion failed in this invocation's cleanup
    exc,                   \* the exception in flight in each invocation
    outcome,               \* what each invocation returned
    stats,                 \* VoiceMessageHandler.stats
    cleanup_calls,         \* history: _cleanup_temp_files calls of each invocation
    unlink_attempted,      \* history: paths each invocation's cleanup called unlink on
    stage_log,             \* history: the stages each invocation ran, with their ends
    \* ---- SpecPoll (_wait_for_completion)
    w_pc,                  \* position of the _wait_for_completion call
    w_status,              \* transcript.status
    w_elapsed,             \* time.time() - start_time, milliseconds
    poll_interval,         \* poll_interval, milliseconds
    max_wait_seconds,      \* max_wait_seconds, in milliseconds
    w_polls,               \* history: get_transcript calls made
    \* ---- SpecSweep (AudioProcessor.cleanup_temp_files)
    s_pc,                  \* position of the cleanup_temp_files call
    s_files,               \* the entries of the temp directory before the sweep
    s_present,             \* the entries still in the temp directory
    s_todo,                \* what remains of the glob("voice_*") iteration
    max_age_hours,         \* max_age_hours
    \* ---- specifications of one call of a function
    call_args,             \* the arguments of the call
    call_result,           \* what it returned, None before the call
    \* ---- SpecSession (AIInterviewerBot, src/telegram_bot.py)
    sessions,              \* self.sessions[user_id] of one user, None without one
    last_handled,          \* history: the last message handled, with the session before and after
    updates_handled        \* history: the number of messages handled

vars_config == <<config>>
vars_quality == <<q_args, q_result>>
vars_transcribe == <<t_pc, t_metadata, attempt, last_error, svc_log, sleeps,
                     transcript, raised, t_result>>
vars_limiter == <<now, sem_value, sem_waiters, last_request_times>>
vars_callers == <<r_pc, current_time, wake_at, passed_at>>
vars_pipeline == <<pc, msg, temp_files, disk, created, unlink_failed, exc,
                   outcome, stats, cleanup_calls, unlink_attempted, stage_log>>
vars_poll == <<w_pc, w_status, w_elapsed, poll_interval, max_wait_seconds,
               w_polls>>
vars_sweep == <<s_pc, s_files, s_present, s_todo, max_age_hours>>
vars_call == <<call_args, call_result>>
vars_session == <<sessions, last_handled, updates_handled>>
vars == <<vars_config, vars_quality, vars_transcribe, vars_limiter,
          vars_callers, vars_pipeline, vars_poll, vars_sweep,
      vars_call, vars_session>>

\* Optional values: None, or Some(x) holding x.
None == <<>>
Some(x) == <<x>>
Get(o) == o[1]

(***************************************************************************)
(* VoiceProcessingConfig                                                   *)
(***************************************************************************)
MaxFileSizeMb == 25
MinDurationMs == 500
MaxDurationMs == 600000
ConfidenceThresholdDefault == 60
ConcurrentRequestsDefault == 3
RetryAttemptsDefault == 3
RetryDelayMs == 2000
MaxRetryDelayMs == 60000
BytesPerMb == 1048576

VoiceProcessingConfig ==
    [max_file_size_mb |-> MaxFileSizeMb,
     min_duration_ms |-> MinDurationMs,
     max_duration_ms |-> MaxDurationMs,
     confidence_threshold |-> ConfidenceThresholdDefault,
     concurrent_requests |-> ConcurrentRequestsDefault,
     retry_attempts |-> RetryAttemptsDefault,
     retry_delay_ms |-> RetryDelayMs,
     max_retry_delay_ms |-> MaxRetryDelayMs,
     default_language |-> "en",
     enabled_features |-> {}]

(***************************************************************************)
(* _determine_quality                                                      *)
(***************************************************************************)
MaxTextLen == 5

Chars == {"a", " "}

Texts == UNION {[1..n -> Chars] : n \in 0..MaxTextLen}

\* str.split() with no argument: the maximal runs of non-whitespace
\* characters; this is the number of such runs.
WordCount(text) ==
    Cardinality({i \in 1..Len(text) :
                    /\ text[i] # " "
                    /\ (i = 1 \/ text[i - 1] = " ")})

VoiceQuality == {"high", "medium", "low", "failed"}

HighConfidence == 85
SparseDurationMs == 10000
MinWords == 3

\* The high check moved in front of the threshold check.
_determine_quality_high_first(cfg, confidence, text, duration) ==
    IF text = <<>> \/ confidence = 0 THEN "failed"
    ELSE IF confidence >= HighConfidence /\ WordCount(text) >= MinWords
         THEN "high"
    ELSE IF confidence < cfg.confidence_threshold THEN "low"
    ELSE IF duration > SparseDurationMs /\ WordCount(text) < MinWords
         THEN "low"
    ELSE "medium"

\* The threshold comparison turned around.
_determine_quality_flipped_threshold(cfg, confidence, text, duration) ==
    IF text = <<>> \/ confidence = 0 THEN "failed"
    ELSE IF confidence > cfg.confidence_threshold THEN "low"
    ELSE LET word_count == WordCount(text)
         IN  IF duration > SparseDurationMs /\ word_count < MinWords
             THEN "low"
             ELSE IF confidence >= HighConfidence /\ word_count >= MinWords
                  THEN "high"
                  ELSE "medium"

_determine_quality(cfg, confidence, text, duration) ==
    IF text = <<>> \/ confidence = 0 THEN "failed"
    ELSE IF confidence < cfg.confidence_threshold THEN "low"
    ELSE LET word_count == WordCount(text)
         IN  IF duration > SparseDurationMs /\ word_count < MinWords
             THEN "low"
             ELSE IF confidence >= HighConfidence /\ word_count >= MinWords
                  THEN "high"
                  ELSE "medium"

(***************************************************************************)
(* Error messages and exceptions                                           *)
(***************************************************************************)
\* str.lower() on the words the model's messages are made of.
LowerWord(w) ==
    CASE w = "Unauthorized" -> "unauthorized"
      [] w = "API" -> "api"
      [] w = "Network" -> "network"
      [] w = "Internal" -> "internal"
      [] w = "Payload" -> "payload"
      [] w = "File" -> "file"
      [] w = "Audio" -> "audio"
      [] w = "AssemblyAI" -> "assemblyai"
      [] w = "Transcription" -> "transcription"
      [] w = "Download" -> "download"
      [] w = "Unsupported" -> "unsupported"
      [] OTHER -> w

Lower(m) == [i \in 1..Len(m) |-> LowerWord(m[i])]

\* `phrase in message`
Contains(m, phrase) ==
    \E i \in 0..(Len(m) - Len(phrase)) :
        \A j \in 1..Len(phrase) : m[i + j] = phrase[j]

MsgNetwork == <<"Network", "error">>
MsgServer == <<"Internal", "server", "error">>
MsgUnauthorized == <<"Unauthorized", "invalid", "API", "key">>
MsgPayload == <<"Payload", "too", "large">>

Exception(type, m) == [type |-> type, msg |-> m]

\* `raise last_error` with last_error = None
RaiseNoneError ==
    Exception("TypeError",
              <<"exceptions", "must", "derive", "from", "BaseException">>)

(***************************************************************************)
(* AssemblyAIClient._is_retryable_error                                    *)
(***************************************************************************)
non_retryable_indicators ==
    {<<"api", "key">>, <<"unauthorized">>, <<"authentication">>,
     <<"file", "size">>, <<"too", "large">>, <<"unsupported", "format">>,
     <<"invalid", "audio">>, <<"bad", "request">>, <<"forbidden">>}

\* Every error is reported retryable.
_is_retryable_error_always(error) == TRUE

\* No error is reported retryable.
_is_retryable_error_never(error) == FALSE

\* A poll timeout is not retried.
_is_retryable_error_no_timeout(error) ==
    /\ error.type # "TimeoutError"
    /\ \A indicator \in non_retryable_indicators :
          ~Contains(Lower(error.msg), indicator)

_is_retryable_error(error) ==
    LET error_msg == Lower(error.msg)
    IN  ~ \E indicator \in non_retryable_indicators :
              Contains(error_msg, indicator)

(***************************************************************************)
(* AssemblyAIClient._validate_audio_file                                   *)
(***************************************************************************)
\* The size check left out.
_validate_audio_file_no_size(cfg, metadata) ==
    IF ~metadata.exists
    THEN Some(Exception("ValueError", <<"Audio", "file", "not", "found">>))
    ELSE IF metadata.duration < cfg.min_duration_ms
    THEN Some(Exception("ValueError", <<"Audio", "too", "short">>))
    ELSE IF metadata.duration > cfg.max_duration_ms
    THEN Some(Exception("ValueError", <<"Audio", "too", "long">>))
    ELSE None

\* The size check made before the existence check.
_validate_audio_file_size_first(cfg, metadata) ==
    IF metadata.size_bytes > cfg.max_file_size_mb * BytesPerMb
    THEN Some(Exception("ValueError", <<"File", "too", "large">>))
    ELSE IF ~metadata.exists
    THEN Some(Exception("ValueError", <<"Audio", "file", "not", "found">>))
    ELSE IF metadata.duration < cfg.min_duration_ms
    THEN Some(Exception("ValueError", <<"Audio", "too", "short">>))
    ELSE IF metadata.duration > cfg.max_duration_ms
    THEN Some(Exception("ValueError", <<"Audio", "too", "long">>))
    ELSE None

\* The exception raised, or None.  file_size_mb > max_file_size_mb, with
\* file_size_mb = size_bytes / (1024 * 1024), is compared in bytes.
_validate_audio_file(cfg, metadata) ==
    IF ~metadata.exists
    THEN Some(Exception("ValueError", <<"Audio", "file", "not", "found">>))
    ELSE IF metadata.size_bytes > cfg.max_file_size_mb * BytesPerMb
    THEN Some(Exception("ValueError", <<"File", "too", "large">>))
    ELSE IF metadata.duration < cfg.min_duration_ms
    THEN Some(Exception("ValueError", <<"Audio", "too", "short">>))
    ELSE IF metadata.duration > cfg.max_duration_ms
    THEN Some(Exception("ValueError", <<"Audio", "too", "long">>))
    ELSE None

(***************************************************************************)
(* The transcription service, as _transcribe_with_retries sees it          *)
(***************************************************************************)
\* status is a string; error, text and confidence are optional.
Transcript(status, error, text, confidence) ==
    [status |-> status, error |-> error, text |-> text,
     confidence |-> confidence]

ThreeWords == <<"a", " ", "a", " ", "a">>

CompletedTranscripts ==
    {Transcript("completed", None, text, confidence) :
        text \in {None, Some(<<>>), Some(<<"a">>), Some(ThreeWords)},
        confidence \in {None, Some(0), Some(70), Some(90)}}

ErrorTranscripts ==
    {Transcript("error", Some(m), None, None) :
        m \in {MsgNetwork, MsgUnauthorized, MsgPayload}}

Pending(status) == Transcript(status, None, None, None)

\* One attempt's behaviour: transcriber.transcribe raises `raises`, or returns
\* `submitted`; a processing/queued transcript is then polled, and `polled` is
\* the transcript the polls end with: one with another status, or one still
\* processing/queued when the wait ceiling is passed.
Behaviour(raises, submitted, polled) ==
    [raises |-> raises, submitted |-> submitted, polled |-> polled]

SvcBehaviours ==
    {Behaviour(Some(Exception("Exception", m)), None, None) :
        m \in {MsgNetwork, MsgServer, MsgUnauthorized}}
    \cup {Behaviour(None, Some(tr), None) :
             tr \in CompletedTranscripts \cup ErrorTranscripts}
    \cup {Behaviour(None, Some(Pending("processing")), Some(p)) :
             p \in {Pending("processing"),
                    Transcript("error", Some(MsgUnauthorized), None, None),
                    Transcript("completed", None, Some(ThreeWords), Some(90))}}
    \cup {Behaviour(None, Some(Pending("queued")), Some(p)) :
             p \in {Pending("queued"),
                    Transcript("completed", None, Some(<<"a">>), None)}}

(***************************************************************************)
(* AssemblyAIClient._wait_for_completion, to its result                    *)
(***************************************************************************)
Ok(value) == [ok |-> TRUE, value |-> Some(value), error |-> None]
Err(error) == [ok |-> FALSE, value |-> None, error |-> Some(error)]

_wait_for_completion(b) ==
    IF Get(b.polled).status \in {"processing", "queued"}
    THEN Err(Exception("TimeoutError",
                       <<"Transcription", "timed", "out", "after", "300",
                         "seconds">>))
    ELSE Ok(Get(b.polled))

(***************************************************************************)
(* AssemblyAIClient._transcribe_with_retries                               *)
(***************************************************************************)
\* The try block of one loop iteration: the transcript returned, or the
\* exception raised.
_attempt(b) ==
    IF b.raises # None THEN Err(Get(b.raises))
    ELSE LET submitted == Get(b.submitted)
         IN  IF submitted.status = "error"
             THEN Err(Exception("Exception",
                                <<"AssemblyAI", "transcription", "error">>
                                    \o (IF submitted.error = None
                                        THEN <<"Unknown", "transcription",
                                               "error">>
                                        ELSE Get(submitted.error))))
             ELSE LET waited ==
                          IF submitted.status \in {"processing", "queued"}
                          THEN _wait_for_completion(b)
                          ELSE Ok(submitted)
                  IN  IF ~waited.ok THEN waited
                      ELSE IF Get(waited.value).status = "completed"
                      THEN waited
                      ELSE Err(Exception("Exception",
                                         <<"Transcription", "finished",
                                           "with", "status",
                                           Get(waited.value).status>>))

\* The loop gives up one attempt early.
_after_failed_attempt_early(cfg, att, e) ==
    IF att < cfg.retry_attempts - 2
    THEN IF ~_is_retryable_error(e) THEN "break" ELSE "sleep"
    ELSE "exhausted"

\* The except block of one loop iteration, after last_error = e.
_after_failed_attempt(cfg, att, e) ==
    IF att < cfg.retry_attempts - 1
    THEN IF ~_is_retryable_error(e) THEN "break" ELSE "sleep"
    ELSE "exhausted"

(***************************************************************************)
(* AssemblyAIClient._process_transcript_result and the except block of     *)
(* transcribe_audio                                                        *)
(***************************************************************************)
VoiceTranscriptionResult(text, confidence, quality, error, metadata, processing_time) ==
    [text |-> text, confidence |-> confidence, quality |-> quality,
     error |-> error, duration |-> metadata.duration,
     file_size_bytes |-> metadata.size_bytes,
     processing_time |-> processing_time]

\* `transcript.text or ""` and `transcript.confidence or 0.0`
_process_transcript_result(cfg, tr, metadata, processing_time) ==
    LET text == IF tr.text = None THEN <<>> ELSE Get(tr.text)
        confidence == IF tr.confidence = None THEN 0 ELSE Get(tr.confidence)
        quality == _determine_quality(cfg, confidence, text, metadata.duration)
    IN  VoiceTranscriptionResult(text, confidence, quality, None, metadata,
                                 processing_time)

\* The isinstance(e, TimeoutError) test left out.
error_category_message_only(e) ==
    LET m == Lower(e.msg)
    IN  IF Contains(m, <<"api", "key">>) \/ Contains(m, <<"unauthorized">>)
        THEN "authentication"
        ELSE IF Contains(m, <<"timeout">>)
        THEN "timeout"
        ELSE IF Contains(m, <<"file", "size">>) \/ Contains(m, <<"too", "large">>)
        THEN "file_size"
        ELSE IF Contains(m, <<"format">>) \/ Contains(m, <<"unsupported">>)
        THEN "format"
        ELSE IF Contains(m, <<"network">>) \/ Contains(m, <<"connection">>)
        THEN "network"
        ELSE "unknown"

error_category(e) ==
    LET m == Lower(e.msg)
    IN  IF Contains(m, <<"api", "key">>) \/ Contains(m, <<"unauthorized">>)
        THEN "authentication"
        ELSE IF Contains(m, <<"timeout">>) \/ e.type = "TimeoutError"
        THEN "timeout"
        ELSE IF Contains(m, <<"file", "size">>) \/ Contains(m, <<"too", "large">>)
        THEN "file_size"
        ELSE IF Contains(m, <<"format">>) \/ Contains(m, <<"unsupported">>)
        THEN "format"
        ELSE IF Contains(m, <<"network">>) \/ Contains(m, <<"connection">>)
        THEN "network"
        ELSE "unknown"

\* error = f"{error_category}: {error_msg}"
_failed_result(e, metadata, processing_time) ==
    VoiceTranscriptionResult(<<>>, 0, "failed",
                             Some(<<error_category(e)>> \o e.msg), metadata,
                             processing_time)

(***************************************************************************)
(* AssemblyAIClient._rate_limit: the sliding window                        *)
(***************************************************************************)
RateWindowSeconds == 60

\* [t for t in self._last_request_times if current_time - t < 60]
PruneOld(times, cur) == SelectSeq(times, LAMBDA t : cur - t < RateWindowSeconds)

SeqMin(times) ==
    CHOOSE t \in {times[i] : i \in 1..Len(times)} :
        \A i \in 1..Len(times) : t <= times[i]

\* The time to sleep, 0 for none, given the pruned log.
wait_time(cfg, times, cur) ==
    IF Len(times) >= cfg.concurrent_requests
    THEN LET w == RateWindowSeconds - (cur - SeqMin(times))
         IN  IF w > 0 THEN w ELSE 0
    ELSE 0

(***************************************************************************)
(* Idle values: what a specification leaves untouched                      *)
(***************************************************************************)
IdleQuality == q_args = None /\ q_result = "none"

IdleTranscribe ==
    /\ t_pc = "idle"
    /\ t_metadata = None
    /\ attempt = 0
    /\ last_error = None
    /\ svc_log = <<>>
    /\ sleeps = {}
    /\ transcript = None
    /\ raised = None
    /\ t_result = None

FreshLimiter ==
    /\ now = 0
    /\ sem_value = config.concurrent_requests
    /\ sem_waiters = <<>>
    /\ last_request_times = <<>>

IdleCallers ==
    /\ r_pc = <<>>
    /\ current_time = <<>>
    /\ wake_at = <<>>
    /\ passed_at = <<>>

IdlePipeline ==
    /\ pc = <<>>
    /\ msg = <<>>
    /\ temp_files = <<>>
    /\ disk = {}
    /\ created = <<>>
    /\ unlink_failed = <<>>
    /\ exc = <<>>
    /\ outcome = <<>>
    /\ stats = None
    /\ cleanup_calls = <<>>
    /\ unlink_attempted = <<>>
    /\ stage_log = <<>>

IdlePoll ==
    /\ w_pc = "idle"
    /\ w_status = "none"
    /\ w_elapsed = 0
    /\ poll_interval = 0
    /\ max_wait_seconds = 0
    /\ w_polls = 0

IdleCall == call_args = None /\ call_result = None

IdleSession ==
    /\ sessions = None
    /\ last_handled = None
    /\ updates_handled = 0

IdleSweep ==
    /\ s_pc = "idle"
    /\ s_files = <<>>
    /\ s_present = {}
    /\ s_todo = <<>>
    /\ max_age_hours = 0

(***************************************************************************)
(* SpecQuality: _determine_quality on bounded inputs                       *)
(***************************************************************************)
Confidences == {0, 1, 59, 60, 61, 84, 85, 86, 89, 90, 91, 100}
Thresholds == {0, ConfidenceThresholdDefault, 90, 100}
Durations == {0, SparseDurationMs, SparseDurationMs + 1, 30000}

InitQuality ==
    /\ config \in {[VoiceProcessingConfig EXCEPT !.confidence_threshold = th] :
                      th \in Thresholds}
    /\ q_args \in {Some(a) : a \in [confidence : Confidences, text : Texts,
                                     duration : Durations]}
    /\ q_result = "none"
    /\ IdleTranscribe /\ FreshLimiter /\ IdleCallers /\ IdlePipeline
    /\ IdlePoll /\ IdleSweep /\ IdleCall
    /\ IdleSession

DetermineQuality ==
    /\ q_result = "none"
    /\ q_result' = _determine_quality(config, Get(q_args).confidence,
                                      Get(q_args).text, Get(q_args).duration)
    /\ UNCHANGED <<vars_config, q_args, vars_transcribe, vars_limiter,
                   vars_callers, vars_pipeline, vars_poll, vars_sweep,
      vars_call, vars_session>>

NextQuality == DetermineQuality

SpecQuality == InitQuality /\ [][NextQuality]_vars

(***************************************************************************)
(* SpecTranscribe: one AssemblyAIClient.transcribe_audio call on a fresh   *)
(* client                                                                  *)
(***************************************************************************)
MaxRetryAttempts == 3

SizesBytes ==
    {MaxFileSizeMb * BytesPerMb, MaxFileSizeMb * BytesPerMb + 1,
     30 * BytesPerMb}

DurationsMs ==
    {0, MinDurationMs - 1, MinDurationMs, SparseDurationMs + 1, MaxDurationMs,
     MaxDurationMs + 1}

InitTranscribe ==
    /\ config \in {[VoiceProcessingConfig EXCEPT !.retry_attempts = n] :
                      n \in 0..MaxRetryAttempts}
    /\ t_pc = "start"
    /\ t_metadata \in {Some(m) : m \in [exists : BOOLEAN,
                                         size_bytes : SizesBytes,
                                         duration : DurationsMs]}
    /\ attempt = 0
    /\ last_error = None
    /\ svc_log = <<>>
    /\ sleeps = {}
    /\ transcript = None
    /\ raised = None
    /\ t_result = None
    /\ IdleQuality /\ FreshLimiter /\ IdleCallers /\ IdlePipeline
    /\ IdlePoll /\ IdleSweep /\ IdleCall
    /\ IdleSession

vars_not_transcribe ==
    <<vars_config, vars_quality, vars_callers, vars_pipeline, vars_poll,
      vars_sweep,
      vars_call, vars_session>>

\* The timestamp is not recorded.
TRateLimit_no_record ==
    /\ t_pc = "start"
    /\ sem_value > 0
    /\ LET pruned == PruneOld(last_request_times, now)
       IN  /\ wait_time(config, pruned, now) = 0
           /\ last_request_times' = pruned
    /\ t_pc' = "validate"
    /\ UNCHANGED <<t_metadata, attempt, last_error, svc_log, sleeps,
                   transcript, raised, t_result>>
    /\ UNCHANGED <<now, sem_value, sem_waiters>>
    /\ UNCHANGED vars_not_transcribe

\* await self._rate_limit(), the semaphore free and nothing to wait for:
\* the slot is taken and given back within the step.
TRateLimit ==
    /\ t_pc = "start"
    /\ sem_value > 0
    /\ LET pruned == PruneOld(last_request_times, now)
       IN  /\ wait_time(config, pruned, now) = 0
           /\ last_request_times' = Append(pruned, now)
    /\ t_pc' = "validate"
    /\ UNCHANGED <<t_metadata, attempt, last_error, svc_log, sleeps,
                   transcript, raised, t_result>>
    /\ UNCHANGED <<now, sem_value, sem_waiters>>
    /\ UNCHANGED vars_not_transcribe

\* await self._validate_audio_file(...); then _build_transcript_config and
\* the entry of _transcribe_with_retries.
TValidate ==
    /\ t_pc = "validate"
    /\ LET e == _validate_audio_file(config, Get(t_metadata))
       IN  IF e # None
           THEN /\ raised' = e
                /\ t_pc' = "validate_raised"
                /\ UNCHANGED <<attempt, last_error>>
           ELSE /\ attempt' = 0
                /\ last_error' = None
                /\ t_pc' = "retry"
                /\ UNCHANGED raised
    /\ UNCHANGED <<t_metadata, svc_log, sleeps, transcript, t_result>>
    /\ UNCHANGED <<vars_limiter, vars_not_transcribe>>

\* transcript_config = self._build_transcript_config(metadata) raises: the
\* SDK rejects the configuration built from the settings.
ConfigError == Exception("ValueError", <<"Invalid", "transcription", "config">>)

TConfigRaise ==
    /\ t_pc = "validate"
    /\ _validate_audio_file(config, Get(t_metadata)) = None
    /\ raised' = Some(ConfigError)
    /\ t_pc' = "config_raised"
    /\ UNCHANGED <<t_metadata, attempt, last_error, svc_log, sleeps,
                   transcript, t_result>>
    /\ UNCHANGED <<vars_limiter, vars_not_transcribe>>

\* One iteration of `for attempt in range(self.config.retry_attempts)`, to
\* its return, its break, the start of its sleep or the end of the loop.
TAttempt ==
    /\ t_pc = "retry"
    /\ attempt < config.retry_attempts
    /\ \E b \in SvcBehaviours :
        LET r == _attempt(b)
        IN  /\ svc_log' = Append(svc_log, b)
            /\ IF r.ok
               THEN /\ transcript' = r.value
                    /\ t_pc' = "returned"
                    /\ UNCHANGED <<last_error, sleeps>>
               ELSE /\ last_error' = r.error
                    /\ LET next == _after_failed_attempt(config, attempt,
                                                         Get(r.error))
                       IN  IF next = "sleep"
                           THEN /\ sleeps' = sleeps \cup {attempt}
                                /\ t_pc' = "backoff"
                           ELSE /\ t_pc' = "after_loop"
                                /\ UNCHANGED sleeps
                    /\ UNCHANGED transcript
    /\ UNCHANGED <<t_metadata, attempt, raised, t_result>>
    /\ UNCHANGED <<vars_limiter, vars_not_transcribe>>

\* await asyncio.sleep(wait_time) ends; the next iteration begins.
TBackoff ==
    /\ t_pc = "backoff"
    /\ attempt' = attempt + 1
    /\ t_pc' = "retry"
    /\ UNCHANGED <<t_metadata, last_error, svc_log, sleeps, transcript,
                   raised, t_result>>
    /\ UNCHANGED <<vars_limiter, vars_not_transcribe>>

\* range(retry_attempts) is empty: the loop body never runs.
TLoopEmpty ==
    /\ t_pc = "retry"
    /\ ~(attempt < config.retry_attempts)
    /\ t_pc' = "after_loop"
    /\ UNCHANGED <<t_metadata, attempt, last_error, svc_log, sleeps,
                   transcript, raised, t_result>>
    /\ UNCHANGED <<vars_limiter, vars_not_transcribe>>

\* raise last_error
TRaiseLast ==
    /\ t_pc = "after_loop"
    /\ raised' = IF last_error = None THEN Some(RaiseNoneError) ELSE last_error
    /\ t_pc' = "retries_raised"
    /\ UNCHANGED <<t_metadata, attempt, last_error, svc_log, sleeps,
                   transcript, t_result>>
    /\ UNCHANGED <<vars_limiter, vars_not_transcribe>>

\* result = self._process_transcript_result(...); return result
TProcess ==
    /\ t_pc = "returned"
    /\ t_result' = Some(_process_transcript_result(config, Get(transcript),
                                                   Get(t_metadata), 0))
    /\ t_pc' = "done"
    /\ UNCHANGED <<t_metadata, attempt, last_error, svc_log, sleeps,
                   transcript, raised>>
    /\ UNCHANGED <<vars_limiter, vars_not_transcribe>>

\* except Exception as e: ... return VoiceTranscriptionResult(... FAILED ...)
TExcept ==
    /\ t_pc \in {"validate_raised", "config_raised", "retries_raised"}
    /\ t_result' = Some(_failed_result(Get(raised), Get(t_metadata), 0))
    /\ t_pc' = "done"
    /\ UNCHANGED <<t_metadata, attempt, last_error, svc_log, sleeps,
                   transcript, raised>>
    /\ UNCHANGED <<vars_limiter, vars_not_transcribe>>

NextTranscribe ==
    \/ TRateLimit
    \/ TValidate
    \/ TConfigRaise
    \/ TAttempt
    \/ TBackoff
    \/ TLoopEmpty
    \/ TRaiseLast
    \/ TProcess
    \/ TExcept

SpecTranscribe == InitTranscribe /\ [][NextTranscribe]_vars

(***************************************************************************)
(* SpecRate: concurrent transcribe_audio callers of one client, with the   *)
(* clock.  A caller runs without delay between its suspension points; time *)
(* passes only when every caller is suspended (on the semaphore, in        *)
(* asyncio.sleep, or awaiting the service) or has not arrived yet.         *)
(***************************************************************************)
NumCallers == 3
MaxConcurrent == 2
MaxTime == 130
TimeStep == 20

Callers == 1..NumCallers

InitRate ==
    /\ config \in {[VoiceProcessingConfig EXCEPT !.concurrent_requests = n] :
                      n \in 1..MaxConcurrent}
    /\ FreshLimiter
    /\ r_pc = [c \in Callers |-> "idle"]
    /\ current_time = [c \in Callers |-> None]
    /\ wake_at = [c \in Callers |-> None]
    /\ passed_at = [c \in Callers |-> None]
    /\ IdleQuality /\ IdleTranscribe /\ IdlePipeline
    /\ IdlePoll /\ IdleSweep /\ IdleCall
    /\ IdleSession

vars_not_rate ==
    <<vars_config, vars_quality, vars_transcribe, vars_pipeline, vars_poll,
      vars_sweep,
      vars_call, vars_session>>

\* The slot is not given back when nobody waits for it.
_release_keeps_slot(c, next) ==
    IF sem_waiters # <<>>
    THEN [r_pc |-> [r_pc EXCEPT ![c] = next, ![Head(sem_waiters)] = "acquired"],
          sem_value |-> sem_value, sem_waiters |-> Tail(sem_waiters)]
    ELSE [r_pc |-> [r_pc EXCEPT ![c] = next], sem_value |-> sem_value,
          sem_waiters |-> sem_waiters]

\* Semaphore.release(): the slot goes to the first waiter, if any.  Gives the
\* new r_pc, sem_value and sem_waiters when caller c, moving to `next`, leaves
\* the `async with` block.
_release(c, next) ==
    IF sem_waiters # <<>>
    THEN [r_pc |-> [r_pc EXCEPT ![c] = next, ![Head(sem_waiters)] = "acquired"],
          sem_value |-> sem_value, sem_waiters |-> Tail(sem_waiters)]
    ELSE [r_pc |-> [r_pc EXCEPT ![c] = next], sem_value |-> sem_value + 1,
          sem_waiters |-> sem_waiters]

\* The caller takes a slot whether or not one is free.
Arrive_no_block(c) ==
    /\ r_pc[c] = "idle"
    /\ sem_value' = sem_value - 1
    /\ r_pc' = [r_pc EXCEPT ![c] = "acquired"]
    /\ UNCHANGED sem_waiters
    /\ UNCHANGED <<now, last_request_times, current_time, wake_at, passed_at>>
    /\ UNCHANGED vars_not_rate

\* transcribe_audio is called; `async with self._request_semaphore` takes a
\* slot or queues the caller.
Arrive(c) ==
    /\ r_pc[c] = "idle"
    /\ IF sem_value > 0 /\ sem_waiters = <<>>
       THEN /\ sem_value' = sem_value - 1
            /\ r_pc' = [r_pc EXCEPT ![c] = "acquired"]
            /\ UNCHANGED sem_waiters
       ELSE /\ sem_waiters' = Append(sem_waiters, c)
            /\ r_pc' = [r_pc EXCEPT ![c] = "waiting"]
            /\ UNCHANGED sem_value
    /\ UNCHANGED <<now, last_request_times, current_time, wake_at, passed_at>>
    /\ UNCHANGED vars_not_rate

\* The body of the `async with` block up to the sleep, or to its end when
\* there is nothing to wait for.
Check(c) ==
    /\ r_pc[c] = "acquired"
    /\ current_time' = [current_time EXCEPT ![c] = Some(now)]
    /\ LET pruned == PruneOld(last_request_times, now)
           w == wait_time(config, pruned, now)
       IN  IF w > 0
           THEN /\ last_request_times' = pruned
                /\ wake_at' = [wake_at EXCEPT ![c] = Some(now + w)]
                /\ r_pc' = [r_pc EXCEPT ![c] = "sleeping"]
                /\ UNCHANGED <<sem_value, sem_waiters, passed_at>>
           ELSE /\ last_request_times' = Append(pruned, now)
                /\ passed_at' = [passed_at EXCEPT ![c] = Some(now)]
                /\ LET rel == _release(c, "validate")
                   IN  /\ r_pc' = rel.r_pc
                       /\ sem_value' = rel.sem_value
                       /\ sem_waiters' = rel.sem_waiters
                /\ UNCHANGED wake_at
    /\ UNCHANGED now
    /\ UNCHANGED vars_not_rate

\* asyncio.sleep(wait_time) ends: the timestamp read before the sleep is
\* appended and the block is left.
Wake(c) ==
    /\ r_pc[c] = "sleeping"
    /\ now >= Get(wake_at[c])
    /\ last_request_times' = Append(last_request_times, Get(current_time[c]))
    /\ passed_at' = [passed_at EXCEPT ![c] = Some(now)]
    /\ LET rel == _release(c, "validate")
       IN  /\ r_pc' = rel.r_pc
           /\ sem_value' = rel.sem_value
           /\ sem_waiters' = rel.sem_waiters
    /\ UNCHANGED <<now, current_time, wake_at>>
    /\ UNCHANGED vars_not_rate

\* The caller's task is cancelled during asyncio.sleep(wait_time): the
\* CancelledError leaves the `async with` block, whose exit releases the
\* slot; no timestamp is appended, and the error leaves transcribe_audio,
\* whose handler catches Exception only.
Cancel(c) ==
    /\ r_pc[c] = "sleeping"
    /\ LET rel == _release(c, "cancelled")
       IN  /\ r_pc' = rel.r_pc
           /\ sem_value' = rel.sem_value
           /\ sem_waiters' = rel.sem_waiters
    /\ UNCHANGED <<now, last_request_times, current_time, wake_at, passed_at>>
    /\ UNCHANGED vars_not_rate

\* _validate_audio_file raises (the call ends with a failed outcome) or
\* passes, and the audio is submitted to the service.
Validate(c) ==
    /\ r_pc[c] = "validate"
    /\ \E valid \in BOOLEAN :
          r_pc' = [r_pc EXCEPT ![c] = IF valid THEN "in_flight" ELSE "done"]
    /\ UNCHANGED <<vars_limiter, current_time, wake_at, passed_at>>
    /\ UNCHANGED vars_not_rate

\* The service call reaches a terminal status and transcribe_audio returns.
Finish(c) ==
    /\ r_pc[c] = "in_flight"
    /\ r_pc' = [r_pc EXCEPT ![c] = "done"]
    /\ UNCHANGED <<vars_limiter, current_time, wake_at, passed_at>>
    /\ UNCHANGED vars_not_rate

Runnable(c) ==
    \/ r_pc[c] \in {"acquired", "validate"}
    \/ r_pc[c] = "sleeping" /\ Get(wake_at[c]) <= now

WakeTimes == {Get(wake_at[c]) : c \in {d \in Callers : r_pc[d] = "sleeping"}}

\* Time passes, up to the next sleeper's wake-up time.
Tick ==
    /\ \A c \in Callers : ~Runnable(c)
    /\ LET target == now + TimeStep
           due == {t \in WakeTimes : t <= target}
       IN  now' = IF due = {} THEN target
                  ELSE CHOOSE t \in due : \A u \in due : t <= u
    /\ now' <= MaxTime
    /\ UNCHANGED <<sem_value, sem_waiters, last_request_times>>
    /\ UNCHANGED vars_callers
    /\ UNCHANGED vars_not_rate

NextRate ==
    \/ \E c \in Callers : Arrive(c)
    \/ \E c \in Callers : Check(c)
    \/ \E c \in Callers : Wake(c)
    \/ \E c \in Callers : Cancel(c)
    \/ \E c \in Callers : Validate(c)
    \/ \E c \in Callers : Finish(c)
    \/ Tick

SpecRate == InitRate /\ [][NextRate]_vars

(***************************************************************************)
(* SpecPoll: one AssemblyAIClient._wait_for_completion call.  Times are in *)
(* milliseconds; the growth of poll_interval by 1.2 is rounded down to the *)
(* millisecond.                                                            *)
(***************************************************************************)
MaxWaitDefaultMs == 300000
PollIntervalStart == 2000
PollIntervalMax == 10000
CallMs == 1000

MaxWaits == {0, 5 * CallMs, MaxWaitDefaultMs}
Statuses == {"processing", "queued", "completed", "error"}
PendingStatuses == {"processing", "queued"}

\* The ceiling is never found exceeded.
_timed_out_never(elapsed, max_wait) == FALSE

\* time.time() - start_time > max_wait_seconds
_timed_out(elapsed, max_wait) == elapsed > max_wait

_next_poll_interval(interval) ==
    IF (interval * 12) \div 10 < PollIntervalMax
    THEN (interval * 12) \div 10 ELSE PollIntervalMax

InitPoll ==
    /\ config = VoiceProcessingConfig
    /\ w_pc = "loop"
    /\ w_status \in Statuses
    /\ w_elapsed = 0
    /\ poll_interval = PollIntervalStart
    /\ max_wait_seconds \in MaxWaits
    /\ w_polls = 0
    /\ IdleQuality /\ IdleTranscribe /\ FreshLimiter /\ IdleCallers
    /\ IdlePipeline /\ IdleSweep /\ IdleCall
    /\ IdleSession

vars_not_poll ==
    <<vars_config, vars_quality, vars_transcribe, vars_limiter, vars_callers,
      vars_pipeline, vars_sweep,
      vars_call, vars_session>>

\* while transcript.status in ["processing", "queued"], and the timeout test
\* that opens the loop body.
WLoop ==
    /\ w_pc = "loop"
    /\ w_pc' = IF w_status \in PendingStatuses
               THEN IF _timed_out(w_elapsed, max_wait_seconds)
                    THEN "raised" ELSE "sleeping"
               ELSE "returned"
    /\ UNCHANGED <<w_status, w_elapsed, poll_interval, max_wait_seconds,
                   w_polls>>
    /\ UNCHANGED vars_not_poll

\* await asyncio.sleep(poll_interval) ends.
WSleep ==
    /\ w_pc = "sleeping"
    /\ w_elapsed' = w_elapsed + poll_interval
    /\ w_pc' = "refreshing"
    /\ UNCHANGED <<w_status, poll_interval, max_wait_seconds, w_polls>>
    /\ UNCHANGED vars_not_poll

\* transcriber.get_transcript returns, at once or after CallMs; the polling
\* interval grows.
WRefresh ==
    /\ w_pc = "refreshing"
    /\ w_status' \in Statuses
    /\ \E d \in {0, CallMs} : w_elapsed' = w_elapsed + d
    /\ poll_interval' = _next_poll_interval(poll_interval)
    /\ w_polls' = w_polls + 1
    /\ w_pc' = "loop"
    /\ UNCHANGED max_wait_seconds
    /\ UNCHANGED vars_not_poll

NextPoll == WLoop \/ WSleep \/ WRefresh

SpecPoll == InitPoll /\ [][NextPoll]_vars

(***************************************************************************)
(* SpecSweep: one AudioProcessor.cleanup_temp_files call on a temp         *)
(* directory.  An entry has a name that matches voice_* or not, is a file  *)
(* or a directory, and has an age: the hours since its modification time.  *)
(***************************************************************************)
NumFiles == 2
MaxAgeDefault == 24

FileIds == 1..NumFiles
Ages == {0, MaxAgeDefault - 1, MaxAgeDefault, MaxAgeDefault + 1}
Entries == [voice : BOOLEAN, is_file : BOOLEAN, age : Ages]

\* The orders in which glob may yield the entries of a set.
RECURSIVE Orders(_)
Orders(ids) ==
    IF ids = {} THEN {<<>>}
    ELSE UNION {{<<f>> \o rest : rest \in Orders(ids \ {f})} : f \in ids}

\* file_mtime < cutoff_time, cutoff_time = now - max_age_hours
_older(entry, max_age) == entry.age > max_age

InitSweep ==
    /\ config = VoiceProcessingConfig
    /\ s_pc = "start"
    /\ s_files \in [FileIds -> Entries]
    /\ s_present = FileIds
    /\ s_todo = <<>>
    /\ max_age_hours \in {0, MaxAgeDefault}
    /\ IdleQuality /\ IdleTranscribe /\ FreshLimiter /\ IdleCallers
    /\ IdlePipeline /\ IdlePoll /\ IdleCall
    /\ IdleSession

vars_not_sweep ==
    <<vars_config, vars_quality, vars_transcribe, vars_limiter, vars_callers,
      vars_pipeline, vars_poll, vars_call, vars_session>>

\* cutoff_time is computed and self.temp_dir.glob("voice_*") is entered.
SweepStart ==
    /\ s_pc = "start"
    /\ s_todo' \in Orders({f \in s_present : s_files[f].voice})
    /\ s_pc' = "loop"
    /\ UNCHANGED <<s_files, s_present, max_age_hours>>
    /\ UNCHANGED vars_not_sweep

\* One iteration of the for loop.  stat() or unlink() may raise: the except
\* clause around the loop logs the error and the call ends.
SweepVisit ==
    /\ s_pc = "loop"
    /\ s_todo # <<>>
    /\ LET f == Head(s_todo)
       IN  IF s_files[f].is_file
           THEN \/ /\ s_present' = (IF _older(s_files[f], max_age_hours)
                                     THEN s_present \ {f} ELSE s_present)
                    /\ s_todo' = Tail(s_todo)
                    /\ UNCHANGED s_pc
                \/ /\ s_pc' = "done"
                    /\ UNCHANGED <<s_present, s_todo>>
           ELSE /\ s_todo' = Tail(s_todo)
                /\ UNCHANGED <<s_pc, s_present>>
    /\ UNCHANGED <<s_files, max_age_hours>>
    /\ UNCHANGED vars_not_sweep

\* The iteration is over: the count is logged and the call returns.
SweepEnd ==
    /\ s_pc = "loop"
    /\ s_todo = <<>>
    /\ s_pc' = "done"
    /\ UNCHANGED <<s_files, s_present, s_todo, max_age_hours>>
    /\ UNCHANGED vars_not_sweep

NextSweep == SweepStart \/ SweepVisit \/ SweepEnd

SpecSweep == InitSweep /\ [][NextSweep]_vars

(***************************************************************************)
(* Spec: concurrent VoiceMessageHandler.process_voice_message invocations  *)
(* on one handler.  An action is the code one invocation runs between two  *)
(* suspension points; the steps that follow a resumption without another   *)
(* await (the conversion, the except block, the finally block) run before  *)
(* any other invocation does.                                              *)
(***************************************************************************)
NumInvocations == 2
NumKeys == 2

Invocations == 1..NumInvocations

\* An update: a voice message (update.message.voice is set) or an audio
\* message (it is None).  `key` stands for the triple (user id, timestamp to
\* the second, file id) that download_voice_message builds the file name from.
Updates ==
    [kind : {"voice", "audio"}, mime_type : {"audio/ogg", "audio/wav"},
     key : 1..NumKeys]

\* File names are only ever compared for equality, and an audio message has
\* no voice attachment to take a name from: invocation i draws its key from
\* the first i keys, and one audio update stands for all of them.
DistinctUpTo(i, m) ==
    /\ m.key <= i
    /\ m.kind = "audio" => m.key = 1 /\ m.mime_type = "audio/ogg"

VoiceDurationMs == 5000
VoiceFileSize == 16000

_mime_to_extension(mime_type) ==
    CASE mime_type = "audio/ogg" -> "ogg"
      [] mime_type = "audio/mpeg" -> "mp3"
      [] mime_type = "audio/mp4" -> "m4a"
      [] mime_type = "audio/wav" -> "wav"
      [] mime_type = "audio/webm" -> "webm"
      [] mime_type = "audio/opus" -> "opus"
      [] OTHER -> "ogg"

\* self.temp_dir / f"voice_{user_id}_{file_hash}.{extension}"
output_path(m) == <<m.key, _mime_to_extension(m.mime_type)>>

\* input_path.with_suffix('.wav')
with_suffix_wav(path) == <<path[1], "wav">>

audio_metadata == [exists |-> TRUE, size_bytes |-> 160000,
                   duration |-> VoiceDurationMs]

voice_metadata == [exists |-> TRUE, size_bytes |-> VoiceFileSize,
                   duration |-> VoiceDurationMs]

\* What transcribe_audio may return to the pipeline.
TranscribeResults ==
    {_process_transcript_result(
         VoiceProcessingConfig,
         Transcript("completed", None, Some(ThreeWords), Some(90)),
         audio_metadata, 2),
     _process_transcript_result(
         VoiceProcessingConfig,
         Transcript("completed", None, Some(<<"a">>), None),
         audio_metadata, 2),
     _failed_result(Exception("Exception", MsgNetwork), audio_metadata, 2)}

stats_init ==
    [messages_processed |-> 0, successful_transcriptions |-> 0,
     failed_transcriptions |-> 0, total_audio_duration |-> 0,
     total_processing_time |-> 0]

Init ==
    /\ config = VoiceProcessingConfig
    /\ pc = [i \in Invocations |-> "idle"]
    /\ msg = [i \in Invocations |-> None]
    /\ temp_files = [i \in Invocations |-> <<>>]
    /\ disk = {}
    /\ created = [i \in Invocations |-> {}]
    /\ unlink_failed = [i \in Invocations |-> FALSE]
    /\ exc = [i \in Invocations |-> None]
    /\ outcome = [i \in Invocations |-> None]
    /\ stats = stats_init
    /\ cleanup_calls = [i \in Invocations |-> 0]
    /\ unlink_attempted = [i \in Invocations |-> {}]
    /\ stage_log = [i \in Invocations |-> <<>>]
    /\ IdleQuality /\ IdleTranscribe /\ FreshLimiter /\ IdleCallers
    /\ IdlePoll /\ IdleSweep /\ IdleCall
    /\ IdleSession

vars_not_pipeline ==
    <<vars_config, vars_quality, vars_transcribe, vars_limiter, vars_callers,
      vars_poll, vars_sweep,
      vars_call, vars_session>>

\* An invocation is running code that reaches no suspension point.
Busy == \E i \in Invocations : pc[i] \in {"convert", "except", "finally"}

\* A stage raised e: control goes to the except block.
Raise(i, e) ==
    /\ exc' = [exc EXCEPT ![i] = Some(e)]
    /\ pc' = [pc EXCEPT ![i] = "except"]

\* The call, up to the first await.  The log call reads voice.duration before
\* the try block is entered.
Start(i) ==
    /\ pc[i] = "idle"
    /\ ~Busy
    /\ \E m \in Updates :
        /\ DistinctUpTo(i, m)
        /\ msg' = [msg EXCEPT ![i] = Some(m)]
        /\ IF m.kind = "audio"
           THEN /\ exc' = [exc EXCEPT ![i] =
                            Some(Exception("AttributeError",
                                           <<"NoneType", "object", "has", "no",
                                             "attribute", "duration">>))]
                /\ pc' = [pc EXCEPT ![i] = "raised"]
                /\ UNCHANGED <<temp_files, stats>>
           ELSE /\ temp_files' = [temp_files EXCEPT ![i] = <<>>]
                /\ stats' = [stats EXCEPT !.messages_processed = @ + 1]
                /\ pc' = [pc EXCEPT ![i] = "send_chat_action"]
                /\ UNCHANGED exc
    /\ UNCHANGED <<disk, created, unlink_failed, outcome>>
    /\ UNCHANGED <<cleanup_calls, unlink_attempted, stage_log>>
    /\ UNCHANGED vars_not_pipeline

\* await context.bot.send_chat_action(...) ends.
SendChatAction(i) ==
    /\ pc[i] = "send_chat_action"
    /\ ~Busy
    /\ \/ pc' = [pc EXCEPT ![i] = "get_file"] /\ UNCHANGED exc
       \/ Raise(i, Exception("Exception", <<"Chat", "action", "failed">>))
    /\ UNCHANGED <<msg, temp_files, disk, created, unlink_failed, outcome,
                   stats>>
    /\ UNCHANGED <<cleanup_calls, unlink_attempted, stage_log>>
    /\ UNCHANGED vars_not_pipeline

\* await context.bot.get_file(voice.file_id) ends.
GetFile(i) ==
    /\ pc[i] = "get_file"
    /\ ~Busy
    /\ \/ pc' = [pc EXCEPT ![i] = "download"] /\ UNCHANGED exc
       \/ Raise(i, Exception("Exception", <<"File", "lookup", "failed">>))
    /\ UNCHANGED <<msg, temp_files, disk, created, unlink_failed, outcome,
                   stats>>
    /\ UNCHANGED <<cleanup_calls, unlink_attempted, stage_log>>
    /\ UNCHANGED vars_not_pipeline

\* download_voice_message: the path it returns, if it returns one, is
\* appended to temp_files.  A failed download may have written the file.
_registered_after_download(files, path, ok) ==
    IF ok THEN Append(files, path) ELSE files

\* The download error is not raised: the pipeline goes on to the conversion.
Download_swallows_error(i) ==
    /\ pc[i] = "download"
    /\ ~Busy
    /\ LET path == output_path(Get(msg[i]))
       IN  \E ok \in BOOLEAN, written \in BOOLEAN :
            /\ ok => written
            /\ disk' = IF written THEN disk \cup {path} ELSE disk
            /\ created' = IF written
                          THEN [created EXCEPT ![i] = @ \cup {path}]
                          ELSE created
            /\ temp_files' = [temp_files EXCEPT ![i] =
                                _registered_after_download(@, path, ok)]
            /\ stage_log' = [stage_log EXCEPT ![i] =
                                Append(@, IF ok THEN "download_ok"
                                          ELSE "download_failed")]
            /\ pc' = [pc EXCEPT ![i] = "convert"]
            /\ UNCHANGED exc
    /\ UNCHANGED <<msg, unlink_failed, outcome, stats>>
    /\ UNCHANGED <<cleanup_calls, unlink_attempted>>
    /\ UNCHANGED vars_not_pipeline

Download(i) ==
    /\ pc[i] = "download"
    /\ ~Busy
    /\ LET path == output_path(Get(msg[i]))
       IN  \E ok \in BOOLEAN, written \in BOOLEAN :
            /\ ok => written
            /\ disk' = IF written THEN disk \cup {path} ELSE disk
            /\ created' = IF written
                          THEN [created EXCEPT ![i] = @ \cup {path}]
                          ELSE created
            /\ temp_files' = [temp_files EXCEPT ![i] =
                                _registered_after_download(@, path, ok)]
            /\ stage_log' = [stage_log EXCEPT ![i] =
                                Append(@, IF ok THEN "download_ok"
                                          ELSE "download_failed")]
            /\ IF ok
               THEN pc' = [pc EXCEPT ![i] = "convert"] /\ UNCHANGED exc
               ELSE Raise(i, Exception("Exception", <<"Download", "failed">>))
    /\ UNCHANGED <<msg, unlink_failed, outcome, stats>>
    /\ UNCHANGED <<cleanup_calls, unlink_attempted>>
    /\ UNCHANGED vars_not_pipeline

\* convert_and_optimize, then the temp_files update of the caller.  The input
\* may not decode; the export may fail after writing (part of) the output.
Convert(i) ==
    /\ pc[i] = "convert"
    /\ LET downloaded_path == output_path(Get(msg[i]))
           optimized_path == with_suffix_wav(downloaded_path)
       IN  \/ /\ downloaded_path \in disk
              /\ disk' = disk \cup {optimized_path}
              /\ created' = [created EXCEPT ![i] = @ \cup {optimized_path}]
              /\ \/ /\ temp_files' =
                         [temp_files EXCEPT ![i] =
                            IF optimized_path # downloaded_path
                            THEN Append(@, optimized_path) ELSE @]
                    /\ pc' = [pc EXCEPT ![i] = "transcribe"]
                    /\ stage_log' = [stage_log EXCEPT ![i] =
                                        Append(@, "convert_ok")]
                    /\ UNCHANGED exc
                 \/ /\ Raise(i, Exception("Exception", <<"Export", "failed">>))
                    /\ stage_log' = [stage_log EXCEPT ![i] =
                                        Append(@, "convert_failed")]
                    /\ UNCHANGED temp_files
           \/ /\ Raise(i, Exception("ValueError",
                                    <<"Unsupported", "audio", "format">>))
              /\ stage_log' = [stage_log EXCEPT ![i] =
                                  Append(@, "convert_failed")]
              /\ UNCHANGED <<temp_files, disk, created>>
    /\ UNCHANGED <<msg, unlink_failed, outcome, stats>>
    /\ UNCHANGED <<cleanup_calls, unlink_attempted>>
    /\ UNCHANGED vars_not_pipeline

\* await self.assemblyai_client.transcribe_audio(...) ends: the statistics
\* update and the return statement; or the client raises.
Transcribe(i) ==
    /\ pc[i] = "transcribe"
    /\ ~Busy
    /\ \/ \E result \in TranscribeResults :
            /\ stats' = [stats EXCEPT
                 !.total_audio_duration = @ + result.duration,
                 !.total_processing_time = @ + result.processing_time,
                 !.successful_transcriptions =
                     IF result.quality # "failed" THEN @ + 1 ELSE @,
                 !.failed_transcriptions =
                     IF result.quality # "failed" THEN @ ELSE @ + 1]
            /\ outcome' = [outcome EXCEPT ![i] = Some(result)]
            /\ pc' = [pc EXCEPT ![i] = "finally"]
            /\ stage_log' = [stage_log EXCEPT ![i] =
                                Append(@, "transcribe_returned")]
            /\ UNCHANGED exc
       \/ /\ Raise(i, Exception("Exception", <<"Transcription", "failed">>))
          /\ stage_log' = [stage_log EXCEPT ![i] =
                              Append(@, "transcribe_raised")]
          /\ UNCHANGED <<stats, outcome>>
    /\ UNCHANGED <<msg, temp_files, disk, created, unlink_failed>>
    /\ UNCHANGED <<cleanup_calls, unlink_attempted>>
    /\ UNCHANGED vars_not_pipeline

\* The failure is not counted.
Except_no_count(i) ==
    /\ pc[i] = "except"
    /\ UNCHANGED stats
    /\ outcome' = [outcome EXCEPT ![i] =
                     Some(VoiceTranscriptionResult(<<>>, 0, "failed",
                                                   Some(Get(exc[i]).msg),
                                                   voice_metadata, 0))]
    /\ pc' = [pc EXCEPT ![i] = "finally"]
    /\ UNCHANGED <<msg, temp_files, disk, created, unlink_failed, exc>>
    /\ UNCHANGED <<cleanup_calls, unlink_attempted, stage_log>>
    /\ UNCHANGED vars_not_pipeline

\* The failed outcome's duration is added to the total.
Except_counts_duration(i) ==
    /\ pc[i] = "except"
    /\ stats' = [stats EXCEPT !.failed_transcriptions = @ + 1,
                              !.total_audio_duration = @ + voice_metadata.duration]
    /\ outcome' = [outcome EXCEPT ![i] =
                     Some(VoiceTranscriptionResult(<<>>, 0, "failed",
                                                   Some(Get(exc[i]).msg),
                                                   voice_metadata, 0))]
    /\ pc' = [pc EXCEPT ![i] = "finally"]
    /\ UNCHANGED <<msg, temp_files, disk, created, unlink_failed, exc>>
    /\ UNCHANGED <<cleanup_calls, unlink_attempted, stage_log>>
    /\ UNCHANGED vars_not_pipeline

\* except Exception as e: the failure counter and the failed outcome.
Except(i) ==
    /\ pc[i] = "except"
    /\ stats' = [stats EXCEPT !.failed_transcriptions = @ + 1]
    /\ outcome' = [outcome EXCEPT ![i] =
                     Some(VoiceTranscriptionResult(<<>>, 0, "failed",
                                                   Some(Get(exc[i]).msg),
                                                   voice_metadata, 0))]
    /\ pc' = [pc EXCEPT ![i] = "finally"]
    /\ UNCHANGED <<msg, temp_files, disk, created, unlink_failed, exc>>
    /\ UNCHANGED <<cleanup_calls, unlink_attempted, stage_log>>
    /\ UNCHANGED vars_not_pipeline

Range(f) == {f[x] : x \in DOMAIN f}

\* The first unlink that raises ends the loop: file k of temp_files fails
\* (k = 0: none does) and the files after it are left alone.
Cleanup_stops_at_failure(i) ==
    /\ pc[i] = "finally"
    /\ \E k \in 0..Len(temp_files[i]) :
        LET visited == IF k = 0 THEN Range(temp_files[i])
                       ELSE {temp_files[i][n] : n \in 1..k}
            failing == IF k = 0 THEN {} ELSE {temp_files[i][k]}
        IN  /\ failing \subseteq disk
            /\ disk' = disk \ (visited \ failing)
            /\ unlink_failed' = [unlink_failed EXCEPT ![i] = failing # {}]
            /\ unlink_attempted' =
                  [unlink_attempted EXCEPT ![i] = visited \cap disk]
    /\ cleanup_calls' = [cleanup_calls EXCEPT ![i] = @ + 1]
    /\ pc' = [pc EXCEPT ![i] = "returned"]
    /\ UNCHANGED <<msg, temp_files, created, exc, outcome, stats, stage_log>>
    /\ UNCHANGED vars_not_pipeline

\* finally: _cleanup_temp_files(temp_files), then the return.  An unlink may
\* raise; the exception is logged and the loop goes on.
Cleanup(i) ==
    /\ pc[i] = "finally"
    /\ \E failing \in SUBSET (Range(temp_files[i]) \cap disk) :
        /\ disk' = disk \ (Range(temp_files[i]) \ failing)
        /\ unlink_failed' = [unlink_failed EXCEPT ![i] = failing # {}]
    /\ cleanup_calls' = [cleanup_calls EXCEPT ![i] = @ + 1]
    /\ unlink_attempted' =
          [unlink_attempted EXCEPT ![i] = Range(temp_files[i]) \cap disk]
    /\ pc' = [pc EXCEPT ![i] = "returned"]
    /\ UNCHANGED <<msg, temp_files, created, exc, outcome, stats, stage_log>>
    /\ UNCHANGED vars_not_pipeline

Next ==
    \/ \E i \in Invocations : Start(i)
    \/ \E i \in Invocations : SendChatAction(i)
    \/ \E i \in Invocations : GetFile(i)
    \/ \E i \in Invocations : Download(i)
    \/ \E i \in Invocations : Convert(i)
    \/ \E i \in Invocations : Transcribe(i)
    \/ \E i \in Invocations : Except(i)
    \/ \E i \in Invocations : Cleanup(i)

Spec == Init /\ [][Next]_vars

(***************************************************************************)
(* Properties of process_voice_message (Spec)                              *)
(***************************************************************************)
\* C1: process_voice_message never raises to its caller, and when a stage
\* raised, the outcome returned has quality `failed` and carries that
\* exception's message as its error.
C1_NeverRaises ==
    \A i \in Invocations :
        /\ pc[i] # "raised"
        /\ (pc[i] = "returned" /\ exc[i] # None)
             => /\ Get(outcome[i]).quality = "failed"
                /\ Get(outcome[i]).error = Some(Get(exc[i]).msg)

\* C2: when process_voice_message returns, every file the run wrote to disk
\* is absent from disk (runs whose deletions the file system refused aside).
C2_CleanupInvariant ==
    [][\A i \in Invocations :
          (pc[i] = "finally" /\ pc'[i] = "returned" /\ ~unlink_failed'[i])
          => created[i] \cap disk' = {}]_vars

Returned == {i \in Invocations : pc[i] = "returned"}
Finished == {i \in Invocations : pc[i] \in {"returned", "raised"}}
Called == {i \in Invocations : pc[i] # "idle"}

\* C13: once the N invocations that were started have all returned,
\* messages_processed has grown by N and successful_transcriptions +
\* failed_transcriptions has grown by N, whatever the interleaving.
C13_NoLostUpdates ==
    (\A i \in Invocations : pc[i] \in {"idle", "returned"})
    => /\ stats.messages_processed = Cardinality(Returned)
       /\ stats.successful_transcriptions + stats.failed_transcriptions
            = Cardinality(Returned)

\* Every invocation has returned: one success, the others failures.
C13_Witness ==
    /\ Returned = Invocations
    /\ stats.messages_processed = NumInvocations
    /\ stats.successful_transcriptions = 1
    /\ stats.failed_transcriptions = NumInvocations - 1

\* C14: every invocation that was called has incremented messages_processed
\* once; every invocation that is over has incremented one of
\* successful_transcriptions (outcome not failed) and failed_transcriptions
\* (outcome failed) once; with no invocation in flight messages_processed =
\* successful_transcriptions + failed_transcriptions.
C14_StatisticsAccounting ==
    /\ stats.messages_processed = Cardinality(Called)
    /\ Finished = Called
         => /\ stats.successful_transcriptions
                 = Cardinality({i \in Finished :
                                  /\ outcome[i] # None
                                  /\ Get(outcome[i]).quality # "failed"})
            /\ stats.failed_transcriptions
                 = Cardinality({i \in Finished :
                                  \/ outcome[i] = None
                                  \/ Get(outcome[i]).quality = "failed"})
            /\ stats.messages_processed
                 = stats.successful_transcriptions
                   + stats.failed_transcriptions

\* C15: an invocation that is over has called the cleanup of its temp files
\* exactly once, on every path, and the cleanup is not called before the
\* outcome is determined.
C15_CleanupOnce ==
    \A i \in Invocations :
        /\ cleanup_calls[i] <= 1
        /\ i \in Finished => cleanup_calls[i] = 1
        /\ cleanup_calls[i] = 1 => outcome[i] # None

\* C16: the cleanup step, whether or not a deletion fails, ends in the return
\* of the outcome determined before it, unchanged, and calls unlink on every
\* temp file of the run that exists.
C16_CleanupFailureSwallowed ==
    [][\A i \in Invocations :
          cleanup_calls'[i] # cleanup_calls[i]
          => /\ pc'[i] = "returned"
             /\ outcome[i] # None
             /\ outcome'[i] = outcome[i]
             /\ unlink_attempted'[i] = Range(temp_files[i]) \cap disk]_vars

\* The first of two temp files could not be deleted; the second was.
C16_Witness ==
    /\ pc[1] = "returned"
    /\ pc[2] = "idle"
    /\ unlink_failed[1]
    /\ Len(temp_files[1]) = 2
    /\ unlink_attempted[1] = Range(temp_files[1])
    /\ temp_files[1][1] \in disk
    /\ temp_files[1][2] \notin disk
    /\ Get(outcome[1]).quality = "high"

\* C17: the cleanup of one invocation never deletes a file that another
\* invocation has registered and is still working on.
C17_TempFileExclusive ==
    [][\A i, j \in Invocations :
          (/\ i # j
           /\ cleanup_calls'[i] # cleanup_calls[i]
           /\ pc[j] \in {"convert", "transcribe"})
          => \A path \in Range(temp_files[j]) \cap disk : path \in disk']_vars

(***************************************************************************)
(* Properties of cleanup_temp_files (SpecSweep)                            *)
(***************************************************************************)
\* C18: when cleanup_temp_files has returned, the entries gone from the temp
\* directory are exactly the files named voice_* whose modification time is
\* older than max_age_hours.
\* (An entry whose own stat or unlink raised is left aside.)
C18_SweepExact ==
    s_pc = "done"
    => \A f \in FileIds :
          (s_todo = <<>> \/ f # Head(s_todo))
          => (f \notin s_present
              <=> /\ s_files[f].voice
                  /\ s_files[f].is_file
                  /\ s_files[f].age > max_age_hours)

(***************************************************************************)
(* Properties of _wait_for_completion (SpecPoll)                           *)
(***************************************************************************)
\* C19: _wait_for_completion goes on polling only while the status is
\* processing or queued and the elapsed time has not passed
\* max_wait_seconds; it returns with a status that is neither; it raises
\* TimeoutError only for a transcript still pending past the ceiling; and
\* the number of polls is bounded by the ceiling over the shortest interval.
C19_PollBounded ==
    /\ w_pc \in {"sleeping", "refreshing"} => w_status \in PendingStatuses
    /\ w_pc = "sleeping" => w_elapsed <= max_wait_seconds
    /\ w_pc = "returned" => w_status \notin PendingStatuses
    /\ w_pc = "raised" => /\ w_status \in PendingStatuses
                          /\ w_elapsed > max_wait_seconds
    /\ w_polls * PollIntervalStart <= w_elapsed
    /\ w_polls <= max_wait_seconds \div PollIntervalStart + 1

\* A transcript that stays queued under the default ceiling: TimeoutError
\* after more than 300 s.
C19_Witness ==
    /\ w_pc = "raised"
    /\ max_wait_seconds = MaxWaitDefaultMs
    /\ w_status = "queued"
    /\ w_elapsed > MaxWaitDefaultMs
    /\ w_polls > 30

(***************************************************************************)
(* Properties of the rate limiter (SpecRate)                               *)
(***************************************************************************)
InFlight == {c \in Callers : r_pc[c] = "in_flight"}

\* C3: the number of transcription-service calls in flight never exceeds
\* concurrent_requests.
C3_ConcurrencyCap == Cardinality(InFlight) <= config.concurrent_requests

Passed == {c \in Callers : passed_at[c] # None}

\* C4: in any 60-second interval [t, t + 60) at most concurrent_requests
\* callers get past _rate_limit.
C4_ThroughputBound ==
    \A c \in Passed :
        Cardinality({d \in Passed :
                        /\ Get(passed_at[c]) <= Get(passed_at[d])
                        /\ Get(passed_at[d]) < Get(passed_at[c])
                                                  + RateWindowSeconds})
            <= config.concurrent_requests

\* The callers inside the `async with` block of _rate_limit.
Holding == {c \in Callers : r_pc[c] \in {"acquired", "sleeping"}}

\* C12: a caller's acquire does not return while concurrent_requests callers
\* hold a slot: never more than concurrent_requests callers are inside the
\* `async with` block, and while a caller waits on the semaphore every slot
\* is held (limit 2, three callers: the third waits for a release).
C12_ThirdCallerWaits ==
    /\ Cardinality(Holding) <= config.concurrent_requests
    /\ \A c \in Callers :
          r_pc[c] = "waiting"
          => /\ Cardinality(Holding) = config.concurrent_requests
             /\ \E k \in 1..Len(sem_waiters) : sem_waiters[k] = c

\* Limit 2: callers 1 and 2 hold the two slots, caller 3 is queued.
C12_Witness ==
    /\ config.concurrent_requests = 2
    /\ Holding = {1, 2}
    /\ r_pc[3] = "waiting"
    /\ sem_waiters = <<3>>

(***************************************************************************)
(* Properties of _transcribe_with_retries and transcribe_audio             *)
(* (SpecTranscribe)                                                        *)
(***************************************************************************)
\* The non-retryable patterns: authentication/authorization, payload too
\* large, unsupported format, malformed request.
AuthPatterns ==
    {<<"api", "key">>, <<"unauthorized">>, <<"authentication">>,
     <<"forbidden">>}
PayloadPatterns == {<<"file", "size">>, <<"too", "large">>}
FormatPatterns == {<<"unsupported", "format">>, <<"invalid", "audio">>}
MalformedPatterns == {<<"bad", "request">>}

MatchesNonRetryablePattern(e) ==
    \E ph \in AuthPatterns \cup PayloadPatterns \cup FormatPatterns
                 \cup MalformedPatterns :
        Contains(Lower(e.msg), ph)

Fails(b) == ~_attempt(b).ok
ErrorOf(b) == Get(_attempt(b).error)
FailsRetryable(b) == Fails(b) /\ ~MatchesNonRetryablePattern(ErrorOf(b))
FailsNonRetryable(b) == Fails(b) /\ MatchesNonRetryablePattern(ErrorOf(b))

\* The service ends the attempt with a completed transcript.
Succeeds(b) ==
    /\ b.raises = None
    /\ \/ Get(b.submitted).status = "completed"
       \/ /\ Get(b.submitted).status \in {"processing", "queued"}
          /\ Get(b.polled).status = "completed"

CompletedOf(b) ==
    IF Get(b.submitted).status = "completed" THEN b.submitted ELSE b.polled

NetworkFailure == Behaviour(Some(Exception("Exception", MsgNetwork)), None, None)
AuthFailure == Behaviour(Some(Exception("Exception", MsgUnauthorized)), None, None)

\* C5: when the first k attempts fail with retryable errors, k below
\* retry_attempts, the loop goes on to attempt k+1; and when attempt k+1
\* succeeds, _transcribe_with_retries returns that attempt's transcript with
\* the service invoked exactly k+1 times.
C5_RetryUntilSuccess ==
    \A k \in 0..Len(svc_log) :
        (/\ k < config.retry_attempts
         /\ \A i \in 1..k : FailsRetryable(svc_log[i]))
        => /\ (k >= 1 /\ Len(svc_log) = k)
                => /\ t_pc \in {"backoff", "retry"}
                   /\ t_pc = "retry" => attempt = k
           /\ (Len(svc_log) > k /\ Succeeds(svc_log[k + 1]))
                => /\ Len(svc_log) = k + 1
                   /\ transcript = CompletedOf(svc_log[k + 1])
                   /\ t_pc \in {"returned", "done"}

\* Two network failures, then a success: three invocations.
C5_Witness ==
    /\ t_pc = "returned"
    /\ Len(svc_log) = 3
    /\ svc_log[1] = NetworkFailure
    /\ svc_log[2] = NetworkFailure
    /\ Succeeds(svc_log[3])

\* C6: an attempt that fails with an error matching a non-retryable pattern
\* is the last attempt, no sleep follows it, and its error is the one
\* _transcribe_with_retries raises; a service that fails every attempt with an
\* authentication error is invoked exactly once.
C6_NonRetryableStop ==
    /\ \A i \in 1..Len(svc_log) :
          FailsNonRetryable(svc_log[i])
          => /\ i = Len(svc_log)
             /\ (i - 1) \notin sleeps
             /\ t_pc \in {"after_loop", "retries_raised", "done"}
             /\ last_error = Some(ErrorOf(svc_log[i]))
             /\ t_pc \in {"retries_raised", "done"}
                   => raised = Some(ErrorOf(svc_log[i]))
    /\ (/\ Len(svc_log) >= 1
        /\ \A i \in 1..Len(svc_log) : svc_log[i] = AuthFailure)
       => Len(svc_log) = 1

C6_Witness ==
    /\ t_pc = "retries_raised"
    /\ config.retry_attempts = RetryAttemptsDefault
    /\ svc_log = <<AuthFailure>>
    /\ raised = AuthFailure.raises

\* C7: when _transcribe_with_retries has raised and every attempt failed with
\* a retryable error, the service was invoked exactly retry_attempts times
\* and the error raised is the error of the last attempt.
C7_RetryExhaustion ==
    (/\ t_pc = "retries_raised"
     /\ \A i \in 1..Len(svc_log) : FailsRetryable(svc_log[i]))
    => /\ Len(svc_log) = config.retry_attempts
       /\ Len(svc_log) >= 1
             => raised = Some(ErrorOf(svc_log[Len(svc_log)]))

C7_Witness ==
    /\ t_pc = "retries_raised"
    /\ Len(svc_log) = 3
    /\ \A i \in 1..3 : FailsRetryable(svc_log[i])
    /\ svc_log[1] = NetworkFailure
    /\ ErrorOf(svc_log[3]).type = "TimeoutError"
    /\ Get(raised).type = "TimeoutError"

\* The attempt ended in the TimeoutError of _wait_for_completion.
TimedOut(b) == Fails(b) /\ ErrorOf(b).type = "TimeoutError"

\* C20: an attempt that ends in a poll timeout, when it is not the last the
\* budget allows, is followed by the backoff and a new attempt; and when
\* _transcribe_with_retries has raised with every attempt timed out, the
\* service was submitted to exactly retry_attempts times and the error
\* raised is the TimeoutError.
C20_TimeoutRetried ==
    /\ \A i \in 1..Len(svc_log) :
          (/\ TimedOut(svc_log[i])
           /\ i < config.retry_attempts
           /\ i = Len(svc_log))
          => /\ t_pc \in {"backoff", "retry"}
             /\ t_pc = "retry" => attempt = i /\ (i - 1) \in sleeps
    /\ (/\ t_pc = "retries_raised"
        /\ Len(svc_log) >= 1
        /\ \A i \in 1..Len(svc_log) : TimedOut(svc_log[i]))
       => /\ Len(svc_log) = config.retry_attempts
          /\ raised # None
          /\ Get(raised).type = "TimeoutError"

\* A service that never completes, under the default budget of three.
C20_Witness ==
    /\ t_pc = "retries_raised"
    /\ config.retry_attempts = RetryAttemptsDefault
    /\ Len(svc_log) = RetryAttemptsDefault
    /\ \A i \in 1..Len(svc_log) : TimedOut(svc_log[i])
    /\ sleeps = {0, 1}
    /\ Get(raised).type = "TimeoutError"

\* The file is missing, or larger than max_file_size_mb, or shorter than
\* min_duration_seconds, or longer than max_duration_seconds.
Rejectable(m) ==
    \/ ~m.exists
    \/ m.size_bytes > MaxFileSizeMb * BytesPerMb
    \/ m.duration < MinDurationMs
    \/ m.duration > MaxDurationMs

\* C8: for a missing file, an oversized file or a duration out of bounds,
\* validation fails and the service is never invoked in that call.
C8_ValidationGate ==
    Rejectable(Get(t_metadata))
    => /\ svc_log = <<>>
       /\ t_pc \in {"start", "validate", "validate_raised", "done"}
       /\ t_pc \in {"validate_raised", "done"}
             => /\ raised # None
                /\ Get(raised).type = "ValueError"
       /\ t_pc = "done" => Get(t_result).quality = "failed"

\* The 30 MB file against the 25 MB maximum.
C8_Witness ==
    /\ t_pc = "done"
    /\ Get(t_metadata).exists
    /\ Get(t_metadata).size_bytes = 30 * BytesPerMb
    /\ Get(t_metadata).duration = MinDurationMs
    /\ svc_log = <<>>
    /\ Contains(Get(Get(t_result).error), <<"too", "large">>)

\* C9: every outcome transcribe_audio returns has quality `failed` exactly
\* when its error is set or its text is empty.
C9_OutcomeInvariant ==
    t_pc = "done"
    => (Get(t_result).quality = "failed"
        <=> (Get(t_result).error # None \/ Get(t_result).text = <<>>))

(***************************************************************************)
(* Properties of _determine_quality (SpecQuality)                          *)
(***************************************************************************)
RECURSIVE CountWords(_, _)
\* Words of `text` from position i on, read left to right.
CountWords(text, i) ==
    IF i > Len(text) THEN 0
    ELSE (IF text[i] # " " /\ (i = Len(text) \/ text[i + 1] = " ")
          THEN 1 ELSE 0) + CountWords(text, i + 1)

ReferenceQuality(threshold, confidence, text, duration) ==
    LET words == CountWords(text, 1)
        failed == text = <<>> \/ confidence = 0
        low == \/ confidence < threshold
               \/ (duration > 10 * 1000 /\ words < 3)
        high == confidence >= 85 /\ words >= 3
    IN  CASE failed -> "failed"
          [] ~failed /\ low -> "low"
          [] ~failed /\ ~low /\ high -> "high"
          [] OTHER -> "medium"

\* C10: _determine_quality returns the reference tier on every input: failed,
\* else low (below the threshold, or sparse text on long audio), else high,
\* else medium.
C10_QualityReference ==
    q_result # "none"
    => q_result = ReferenceQuality(config.confidence_threshold,
                                   Get(q_args).confidence, Get(q_args).text,
                                   Get(q_args).duration)

\* A confidence of 0.86 on three words is `low` under a threshold of 0.9:
\* the low-confidence check comes before the high check.
C10_Witness ==
    /\ q_result = "low"
    /\ config.confidence_threshold = 90
    /\ Get(q_args).confidence = 86
    /\ Get(q_args).text = ThreeWords

\* failed < low < medium < high
TierRank(quality) ==
    CASE quality = "failed" -> 0
      [] quality = "low" -> 1
      [] quality = "medium" -> 2
      [] quality = "high" -> 3

\* C11: for a text of at least three words on audio of at most 10 s, and any
\* threshold, a higher confidence never gets a lower tier than the one
\* _determine_quality returned (failed < low < medium < high).
C11_QualityMonotone ==
    (/\ q_result # "none"
     /\ WordCount(Get(q_args).text) >= MinWords
     /\ Get(q_args).duration <= SparseDurationMs)
    => \A c2 \in Confidences :
          c2 >= Get(q_args).confidence
          => TierRank(q_result)
               <= TierRank(_determine_quality(config, c2, Get(q_args).text,
                                              Get(q_args).duration))

\* Confidence 0.61 on three words is `medium` under the default threshold,
\* below 0.85 which is `high` and above 0.59 which is `low`.
C11_Witness ==
    /\ q_result = "medium"
    /\ config.confidence_threshold = ConfidenceThresholdDefault
    /\ Get(q_args).confidence = 61
    /\ Get(q_args).text = ThreeWords
    /\ Get(q_args).duration = SparseDurationMs
    /\ _determine_quality(config, 85, ThreeWords, SparseDurationMs) = "high"
    /\ _determine_quality(config, 59, ThreeWords, SparseDurationMs) = "low"

(***************************************************************************)
(* The delay before the next attempt (_transcribe_with_retries, the sleep  *)
(* after a failed attempt).  Delays are in milliseconds; `frac` is the     *)
(* fractional part of the event loop's clock in tenths of a second.        *)
(***************************************************************************)
MaxBackoffAttempt == 3
ClockTenths == 0..9
RetryDelaysMs == {1000, RetryDelayMs}
MaxRetryDelaysMs == {3000, MaxRetryDelayMs}

Pow2(n) == IF n = 0 THEN 1 ELSE IF n = 1 THEN 2 ELSE IF n = 2 THEN 4 ELSE IF n = 3 THEN 8 ELSE IF n = 4 THEN 16 ELSE 32

Min(a, b) == IF a <= b THEN a ELSE b

base_delay(cfg, att) == cfg.retry_delay_ms * Pow2(att)

\* base_delay * 0.1 * (0.5 - time() % 1): with the clock's fraction f/10 this
\* is base_delay * (5 - f) / 100, exact here since base_delay is a multiple
\* of 100 ms.
jitter(cfg, att, frac) == (base_delay(cfg, att) * (5 - frac)) \div 100

\* The cap left out.
backoff_wait_time_uncapped(cfg, att, frac) == base_delay(cfg, att) + jitter(cfg, att, frac)

backoff_wait_time(cfg, att, frac) == Min(base_delay(cfg, att) + jitter(cfg, att, frac), cfg.max_retry_delay_ms)

InitBackoff ==
    /\ config \in {[VoiceProcessingConfig EXCEPT !.retry_delay_ms = d, !.max_retry_delay_ms = m] : d \in RetryDelaysMs, m \in MaxRetryDelaysMs}
    /\ call_args \in {Some([attempt |-> a, frac |-> f]) : a \in 0..MaxBackoffAttempt, f \in ClockTenths}
    /\ call_result = None
    /\ IdleQuality /\ IdleTranscribe /\ FreshLimiter /\ IdleCallers
    /\ IdlePipeline /\ IdlePoll /\ IdleSweep
    /\ IdleSession

vars_not_call == <<vars_config, vars_quality, vars_transcribe, vars_limiter, vars_callers, vars_pipeline, vars_poll, vars_sweep, vars_session>>

Backoff ==
    /\ call_args # None
    /\ call_result = None
    /\ call_result' = Some(backoff_wait_time(config, Get(call_args).attempt, Get(call_args).frac))
    /\ UNCHANGED <<call_args, vars_not_call>>

NextBackoff == Backoff

SpecBackoff == InitBackoff /\ [][NextBackoff]_vars

\* C21 as stated: the delay slept after failed attempt `attempt` is the
\* exponential value retry_delay * 2^attempt plus a jitter between 0 and 10%
\* of it, capped at max_retry_delay: it is never above max_retry_delay, and
\* never below the exponential value unless the cap applies.
C21_BackoffBounds ==
    call_result # None
    => LET att == Get(call_args).attempt
           base == base_delay(config, att)
           wait == Get(call_result)
       IN /\ wait <= config.max_retry_delay_ms
          /\ \/ wait = config.max_retry_delay_ms
             \/ /\ wait >= base
                /\ 10 * (wait - base) <= base

\* C21, amended: the delay is the exponential value plus a jitter of more
\* than -5% and at most +5% of it, capped at max_retry_delay: it is never
\* above max_retry_delay, below it the delay is within 5% of the exponential
\* value, and the cap applies only when the exponential value plus 5% reaches
\* max_retry_delay.
C21_BackoffBoundsAmended ==
    call_result # None
    => LET att == Get(call_args).attempt
           base == base_delay(config, att)
           wait == Get(call_result)
       IN /\ wait <= config.max_retry_delay_ms
          /\ wait < config.max_retry_delay_ms
                => /\ 100 * (wait - base) > -5 * base
                   /\ 100 * (wait - base) <= 5 * base
          /\ wait = config.max_retry_delay_ms
                => 105 * base >= 100 * config.max_retry_delay_ms

\* Attempt 0 with a retry delay of 1 s and the clock at x.6 s: the delay is
\* 0.99 s, below the exponential value, with the cap at 60 s.
C21_Witness ==
    /\ call_result = Some(990)
    /\ Get(call_args).attempt = 0
    /\ config.retry_delay_ms = 1000
    /\ config.max_retry_delay_ms = MaxRetryDelayMs

(***************************************************************************)
(* The enrichment part of AssemblyAIClient._process_transcript_result.     *)
(* config.enabled_features is the set of enrichment features whose         *)
(* enable_* flag is True (all False by default).  A response holds, for    *)
(* each optional attribute, None when the attribute is missing or empty.   *)
(***************************************************************************)
MaxSpeakers == 2
MaxChapters == 1

Enrichments == {"speakers", "summary", "chapters", "content_safety", "topics", "sentiment"}

\* The response attribute each metadata field is copied from, named by the
\* field: utterances -> speakers, summary, chapters, content_safety_labels ->
\* content_safety, topics, sentiment_analysis_results -> sentiment.
Responses ==
    [language_detection_results : {None, Some([language |-> "ru", confidence |-> 0]), Some([language |-> "ru", confidence |-> 90])},
     language_code : {None, Some("en")},
     utterances : {None} \cup {Some(k) : k \in 0..MaxSpeakers},
     chapters : 0..MaxChapters,
     present : SUBSET {"summary", "content_safety", "topics", "sentiment"}]

result_language(cfg, resp) ==
    IF resp.language_detection_results # None
    THEN Get(resp.language_detection_results).language
    ELSE IF resp.language_code # None THEN Get(resp.language_code)
    ELSE cfg.default_language

\* The keys of enhanced_metadata, with the values the renderer reads.
enhanced_metadata(cfg, resp) ==
    [keys |-> {"transcript_id", "word_count", "characters", "audio_url", "language_confidence", "status"}
              \cup (IF resp.utterances # None THEN {"speakers", "speaker_count"} ELSE {})
              \cup (IF "summary" \in resp.present THEN {"summary"} ELSE {})
              \cup (IF resp.chapters > 0 THEN {"chapters"} ELSE {})
              \cup (IF "content_safety" \in resp.present THEN {"content_safety"} ELSE {})
              \cup (IF "topics" \in resp.present THEN {"topics"} ELSE {})
              \cup (IF "sentiment" \in resp.present THEN {"sentiment"} ELSE {}),
     language_confidence |-> IF resp.language_detection_results # None THEN Some(Get(resp.language_detection_results).confidence) ELSE None,
     speakers |-> IF resp.utterances # None THEN Get(resp.utterances) ELSE 0,
     chapters |-> resp.chapters]

\* The enrichment fields the response holds.
ResponseFields(resp) ==
    resp.present
    \cup (IF resp.utterances # None THEN {"speakers"} ELSE {})
    \cup (IF resp.chapters > 0 THEN {"chapters"} ELSE {})

InitEnrich ==
    /\ config \in {[VoiceProcessingConfig EXCEPT !.enabled_features = fs] : fs \in SUBSET Enrichments}
    /\ call_args \in {Some(resp) : resp \in {r \in Responses : r.language_code = None /\ r.language_detection_results = None}}
    /\ call_result = None
    /\ IdleQuality /\ IdleTranscribe /\ FreshLimiter /\ IdleCallers
    /\ IdlePipeline /\ IdlePoll /\ IdleSweep
    /\ IdleSession

Enrich ==
    /\ call_args # None
    /\ call_result = None
    /\ call_result' = Some(enhanced_metadata(config, Get(call_args)))
    /\ UNCHANGED <<call_args, vars_not_call>>

NextEnrich == Enrich

SpecEnrich == InitEnrich /\ [][NextEnrich]_vars

\* C26: an enrichment field (speakers, summary, chapters, content-safety
\* labels, topics, sentiment) is in the outcome metadata only if its feature
\* flag was enabled and the response held the field.
C26_EnrichmentGated ==
    call_result # None
    => \A f \in Enrichments :
          f \in Get(call_result).keys
          => f \in config.enabled_features /\ f \in ResponseFields(Get(call_args))

(***************************************************************************)
(* VoiceMessageHandler.format_transcription_response.  The rendered text   *)
(* is a record: the template chosen, the words of the text (with the       *)
(* interpolated strings) and the numbers interpolated into it.             *)
(***************************************************************************)
Upper(language) == IF language = "ru" THEN "RU" ELSE IF language = "en" THEN "EN" ELSE language

Rendered(template, words, values) == [template |-> template, words |-> words, values |-> values]

\* The extras line: call.language is result.language, call.metadata is
\* result.metadata.
_extras(call) ==
    IF ~call.include_extras \/ call.metadata = None THEN <<>>
    ELSE LET md == Get(call.metadata)
         IN  (IF call.language # None /\ Get(call.language) # "en"
              THEN <<"Language:", Upper(Get(call.language))>>
                   \o (IF md.language_confidence # None /\ Get(md.language_confidence) # 0 THEN <<"(confidence)">> ELSE <<>>)
              ELSE <<>>)
             \o (IF "speakers" \in md.keys /\ md.speakers > 1 THEN <<"Speakers:", "detected">> ELSE <<>>)
             \o (IF "summary" \in md.keys THEN <<"Summary", "available">> ELSE <<>>)
             \o (IF "chapters" \in md.keys /\ md.chapters > 0 THEN <<"Chapters:", "sections">> ELSE <<>>)

format_transcription_response(cfg, call) ==
    LET result == call.result
    IN  IF result.quality = "failed"
        THEN LET error_msg == IF result.error = None THEN <<>> ELSE Get(result.error)
             IN  IF Contains(error_msg, <<"authentication">>)
                 THEN Rendered("authentication", <<"API", "authentication", "failed.", "Please", "check", "the", "configuration.">>, <<>>)
                 ELSE IF Contains(error_msg, <<"timeout">>)
                 THEN Rendered("timeout", <<"Transcription", "timed", "out.", "Please", "try", "with", "a", "shorter", "audio", "file.">>, <<>>)
                 ELSE IF Contains(error_msg, <<"file_size">>)
                 THEN Rendered("file_size", <<"File", "too", "large", "Please", "keep", "under">>, <<result.file_size_bytes, cfg.max_file_size_mb>>)
                 ELSE IF Contains(error_msg, <<"format">>)
                 THEN Rendered("format", <<"Unsupported", "audio", "format.", "Please", "try", "recording", "in", "a", "standard", "format.">>, <<>>)
                 ELSE IF Contains(error_msg, <<"network">>)
                 THEN Rendered("network", <<"Network", "error", "occurred.", "Please", "check", "your", "connection", "and", "try", "again.">>, <<>>)
                 ELSE IF Contains(Lower(error_msg), <<"too", "short">>)
                 THEN Rendered("too_short", <<"Audio", "too", "short", "Please", "speak", "for", "at", "least">>, <<result.duration, cfg.min_duration_ms>>)
                 ELSE IF Contains(Lower(error_msg), <<"too", "large">>)
                 THEN Rendered("too_long", <<"Audio", "too", "long", "Please", "keep", "under", "minutes.">>, <<result.duration, cfg.max_duration_ms>>)
                 ELSE Rendered("generic", <<"Transcription", "failed:">> \o error_msg, <<>>)
        ELSE LET indicator == IF result.quality = "high" THEN "mic-sparkles" ELSE IF result.quality = "low" THEN "mic-warning" ELSE "mic"
                 extras == _extras(call)
             IN  Rendered("transcribed",
                          <<indicator, "Voice", "Message", "Transcribed:">> \o result.text
                              \o (IF result.quality = "low" THEN <<"(Confidence:", "please", "verify)">> ELSE <<>>)
                              \o extras,
                          (IF result.quality = "low" THEN <<result.confidence>> ELSE <<>>)
                              \o (IF extras # <<>> THEN <<Get(call.metadata).speakers, Get(call.metadata).chapters>> ELSE <<>>))

\* The outcomes transcribe_audio can return, each with the exception it was
\* built from (None when the transcript was processed): a validation error
\* for the metadata that fail validation, otherwise an error of the retry
\* loop or a processed transcript.
AudioMetadatas == [exists : BOOLEAN, size_bytes : SizesBytes, duration : DurationsMs]

RetryLoopErrors == {ErrorOf(b) : b \in {x \in SvcBehaviours : Fails(x)}} \cup {RaiseNoneError}

RenderResponses == {r \in Responses : r.present \subseteq {"summary"} /\ r.language_code = None /\ (r.utterances = None \/ r.utterances = Some(MaxSpeakers))}

error_metadata == [keys |-> {"error_type", "error_category"}, language_confidence |-> None, speakers |-> 0, chapters |-> 0]

Outcome(exception, result, language, metadata) == [raised |-> exception, result |-> result, language |-> language, metadata |-> metadata]

TranscribeOutcomes(cfg) ==
    {Outcome(_validate_audio_file(cfg, m), _failed_result(Get(_validate_audio_file(cfg, m)), m, 2), None, Some(error_metadata)) :
        m \in {x \in AudioMetadatas : _validate_audio_file(cfg, x) # None}}
    \cup {Outcome(Some(e), _failed_result(e, m, 2), None, Some(error_metadata)) :
             e \in RetryLoopErrors, m \in {x \in AudioMetadatas : _validate_audio_file(cfg, x) = None}}
    \cup {Outcome(None, _process_transcript_result(cfg, tr, m, 2), Some(result_language(cfg, resp)), Some(enhanced_metadata(cfg, resp))) :
             tr \in CompletedTranscripts, resp \in RenderResponses,
             m \in {x \in AudioMetadatas : _validate_audio_file(cfg, x) = None /\ x.duration = SparseDurationMs + 1}}

\* The outcomes the except block of process_voice_message returns.
PipelineErrors ==
    {Exception("Exception", <<"Chat", "action", "failed">>),
     Exception("Exception", <<"File", "lookup", "failed">>),
     Exception("Exception", <<"Download", "failed">>),
     Exception("Exception", <<"Export", "failed">>),
     Exception("ValueError", <<"Unsupported", "audio", "format">>),
     Exception("Exception", <<"Transcription", "failed">>)}

PipelineOutcomes ==
    {Outcome(Some(e), VoiceTranscriptionResult(<<>>, 0, "failed", Some(e.msg), voice_metadata, 0), None, None) : e \in PipelineErrors}

InitRender ==
    /\ config = VoiceProcessingConfig
    /\ call_args \in {Some([raised |-> o.raised, result |-> o.result, language |-> o.language, metadata |-> o.metadata, include_extras |-> x]) :
                         o \in TranscribeOutcomes(VoiceProcessingConfig) \cup PipelineOutcomes, x \in BOOLEAN}
    /\ call_result = None
    /\ IdleQuality /\ IdleTranscribe /\ FreshLimiter /\ IdleCallers
    /\ IdlePipeline /\ IdlePoll /\ IdleSweep
    /\ IdleSession

Render ==
    /\ call_args # None
    /\ call_result = None
    /\ call_result' = Some(format_transcription_response(config, Get(call_args)))
    /\ UNCHANGED <<call_args, vars_not_call>>

NextRender == Render

SpecRender == InitRender /\ [][NextRender]_vars

\* The cause of a failure, read off the exception the outcome was built from.
CauseOf(e) ==
    LET m == Lower(e.msg)
    IN  IF Contains(m, <<"unauthorized">>) \/ Contains(m, <<"api", "key">>) THEN "authentication"
        ELSE IF e.type = "TimeoutError" THEN "timeout"
        ELSE IF Contains(m, <<"file", "too", "large">>) \/ Contains(m, <<"payload", "too", "large">>) THEN "file_size"
        ELSE IF Contains(m, <<"unsupported">>) THEN "format"
        ELSE IF Contains(m, <<"network">>) THEN "network"
        ELSE IF Contains(m, <<"audio", "too", "short">>) THEN "too_short"
        ELSE IF Contains(m, <<"audio", "too", "long">>) THEN "too_long"
        ELSE "generic"

\* C22: for every failed outcome the pipeline can produce, the text returned
\* by format_transcription_response is the guidance template of the
\* failure's cause (authentication, timeout, file size, format, network,
\* audio too short, audio too long), and the generic template only when none
\* of these causes applies.
C22_TemplateByCause ==
    (/\ call_result # None
     /\ Get(call_args).result.quality = "failed"
     /\ Get(call_args).raised # None)
    => Get(call_result).template = CauseOf(Get(Get(call_args).raised))

\* C23: the text rendered for a failed outcome never contains the outcome's
\* raw error string, nor the message of the exception it was built from.
C23_NoRawError ==
    (/\ call_result # None
     /\ Get(call_args).result.quality = "failed"
     /\ Get(call_args).result.error # None)
    => /\ ~Contains(Get(call_result).words, Get(Get(call_args).result.error))
       /\ Get(call_args).raised # None => ~Contains(Get(call_result).words, Get(Get(call_args).raised).msg)

(***************************************************************************)
(* Properties of transcribe_audio's except block (SpecTranscribe)          *)
(***************************************************************************)
ErrorCategories == {"authentication", "timeout", "file_size", "format", "network", "unknown"}

\* C24: transcribe_audio never raises: whenever validation, the building of
\* the configuration or the retry loop has raised, the call returns a failed
\* outcome with empty text, confidence 0 and the error `<category>: <message>`
\* of the exception; a TimeoutError gets the category timeout, and a message
\* with `unauthorized` or `api key` gets the category authentication.
C24_TranscribeNeverRaises ==
    /\ t_pc \in {"validate_raised", "config_raised", "retries_raised"} => raised # None /\ ENABLED TExcept
    /\ t_pc = "done" => t_result # None
    /\ (t_pc = "done" /\ raised # None)
       => LET e == Get(raised)
              r == Get(t_result)
          IN  /\ r.quality = "failed"
              /\ r.text = <<>>
              /\ r.confidence = 0
              /\ r.error # None
              /\ Head(Get(r.error)) \in ErrorCategories
              /\ Tail(Get(r.error)) = e.msg
              /\ e.type = "TimeoutError" => Head(Get(r.error)) = "timeout"
              /\ (Contains(Lower(e.msg), <<"unauthorized">>) \/ Contains(Lower(e.msg), <<"api", "key">>))
                    => Head(Get(r.error)) = "authentication"

\* Every attempt timed out: the outcome's error is `timeout: Transcription
\* timed out after 300 seconds`.
C24_Witness ==
    /\ t_pc = "done"
    /\ raised # None
    /\ Get(raised).type = "TimeoutError"
    /\ Get(t_result).quality = "failed"
    /\ Head(Get(Get(t_result).error)) = "timeout"

(***************************************************************************)
(* Order of the stages of process_voice_message (Spec)                     *)
(***************************************************************************)
StageOrders ==
    {<<>>, <<"download_ok">>, <<"download_failed">>,
     <<"download_ok", "convert_ok">>, <<"download_ok", "convert_failed">>,
     <<"download_ok", "convert_ok", "transcribe_returned">>,
     <<"download_ok", "convert_ok", "transcribe_raised">>}

\* C25: within one process_voice_message run the conversion starts only after
\* the download succeeded and transcribe_audio is called only after the
\* conversion succeeded; a failed download or conversion is attempted exactly
\* once and ends the run's stages: transcribe_audio (the rate limiter and the
\* service behind it) is never called in that run.
C25_PipelineOrder ==
    \A i \in Invocations :
        /\ stage_log[i] \in StageOrders
        /\ pc[i] = "convert" => stage_log[i] = <<"download_ok">>
        /\ pc[i] = "transcribe" => stage_log[i] = <<"download_ok", "convert_ok">>
        /\ (stage_log[i] # <<>> /\ stage_log[i][Len(stage_log[i])] \in {"download_failed", "convert_failed"})
              => pc[i] \in {"except", "finally", "returned"}

\* A run whose conversion failed has returned: one download, one conversion,
\* no transcription.
C25_Witness ==
    \E i \in Invocations :
        /\ pc[i] = "returned"
        /\ stage_log[i] = <<"download_ok", "convert_failed">>
        /\ Get(outcome[i]).quality = "failed"

(***************************************************************************)
(* Word search: AssemblyAIClient.search_words_in_transcript and            *)
(* _basic_word_search, VoiceTranscriptionResult.search_words and           *)
(* VoiceMessageHandler.search_words_in_result.  Texts and words are        *)
(* sequences of characters; offsets are 0-based as in Python.              *)
(***************************************************************************)
MaxSearchLen == 4

SearchChars == {"a", "A", "b", "+", " "}

SearchTexts == UNION {[1..n -> SearchChars] : n \in 0..MaxSearchLen}

SearchWords == {<<"a">>, <<"A">>, <<"a", "b">>, <<"b", "B">>, <<"a", "+">>}

SearchWordLists == {<<>>} \cup {<<w>> : w \in SearchWords} \cup {<<<<"a">>, <<"a", "b">>>>}

LowerChar(c) == IF c = "A" THEN "a" ELSE IF c = "B" THEN "b" ELSE c

\* str.lower()
LowerText(text) == [i \in 1..Len(text) |-> LowerChar(text[i])]

\* \w
IsWordChar(c) == c \notin {" ", "+"}

\* \b at offset p: exactly one of the characters before and after the
\* offset is a word character (none outside the text).
WordBoundary(text, p) ==
    (p >= 1 /\ IsWordChar(text[p])) # (p < Len(text) /\ IsWordChar(text[p + 1]))

\* r'\b' + re.escape(word_lower) + r'\b' matches at offset pos
_match_at(text, word, pos) ==
    /\ pos + Len(word) <= Len(text)
    /\ WordBoundary(text, pos)
    /\ \A j \in 1..Len(word) : text[pos + j] = word[j]
    /\ WordBoundary(text, pos + Len(word))

RECURSIVE _finditer(_, _, _)
\* list(re.finditer(pattern, text)) from offset pos on: leftmost matches, the
\* scan resuming at the end of each match.
_finditer(text, word, pos) ==
    IF pos + Len(word) > Len(text) THEN <<>>
    ELSE IF _match_at(text, word, pos)
    THEN <<[start |-> pos, end |-> pos + Len(word)]>> \o _finditer(text, word, pos + Len(word))
    ELSE _finditer(text, word, pos + 1)

WordSet(words) == {words[i] : i \in 1..Len(words)}

_basic_word_search(text, words) ==
    [word \in WordSet(words) |->
        LET matches == _finditer(LowerText(text), LowerText(word), 0)
        IN  [i \in 1..Len(matches) |->
                [text |-> word, start_char |-> matches[i].start, end_char |-> matches[i].end,
                 confidence |-> 100, count |-> Len(matches), match_index |-> i - 1]]]

\* transcript.word_search(words) of the SDK: one match object per word found,
\* with its text and count (no start, end or confidence attribute).
word_search(text, words) ==
    LET found == {w \in WordSet(words) : _finditer(LowerText(text), LowerText(w), 0) # <<>>}
    IN  {[text |-> LowerText(w), count |-> Len(_finditer(LowerText(text), LowerText(w), 0))] : w \in found}

RECURSIVE SetToSeq(_)
SetToSeq(S) == IF S = {} THEN <<>> ELSE LET x == CHOOSE y \in S : TRUE IN <<x>> \o SetToSeq(S \ {x})

\* getattr(match, 'start', 0), getattr(match, 'end', 0),
\* getattr(match, 'confidence', 1.0)
search_words_in_transcript(text, words, word_search_raises) ==
    IF word_search_raises THEN _basic_word_search(text, words)
    ELSE [word \in WordSet(words) |->
             SetToSeq({[text |-> m.text, start |-> 0, end |-> 0, confidence |-> 100, count |-> m.count] :
                          m \in {x \in word_search(text, words) : x.text = LowerText(word)}})]

\* VoiceTranscriptionResult.search_words; metadata is None or the set of keys.
search_words(result, words) ==
    IF result.metadata = None \/ Get(result.metadata) = {} \/ "transcript_id" \notin Get(result.metadata)
    THEN <<>>
    ELSE [word \in WordSet(words) |->
             LET matches == _finditer(LowerText(result.text), LowerText(word), 0)
             IN  [i \in 1..Len(matches) |->
                     [text |-> word, start_char |-> matches[i].start, end_char |-> matches[i].end,
                      count |-> Len(matches)]]]

\* An empty dict is <<>>, the function of empty domain.
search_words_in_result(result, words) ==
    IF result.quality = "failed" \/ result.text = <<>> THEN <<>>
    ELSE search_words(result, words)

\* The outcomes the pipeline hands to search_words_in_result: a processed
\* transcript (metadata with transcript_id; `failed` when the text is empty,
\* and also with a text when the confidence is 0), the failed outcome of
\* transcribe_audio and the failed outcome of process_voice_message.
SearchOutcomes ==
    {[quality |-> q, text |-> t, metadata |-> Some(enhanced_metadata(VoiceProcessingConfig, CHOOSE r \in RenderResponses : TRUE).keys)] :
        q \in VoiceQuality, t \in SearchTexts \ {<<>>}}
    \cup {[quality |-> "failed", text |-> <<>>, metadata |-> md] :
             md \in {Some(error_metadata.keys), None,
                     Some(enhanced_metadata(VoiceProcessingConfig, CHOOSE r \in RenderResponses : TRUE).keys)}}

InitSearch ==
    /\ config = VoiceProcessingConfig
    /\ call_args \in
          {Some([op |-> "_basic_word_search", text |-> t, words |-> ws]) : t \in SearchTexts, ws \in SearchWordLists}
          \cup {Some([op |-> "search_words_in_transcript", text |-> t, words |-> ws, word_search_raises |-> x]) :
                   t \in SearchTexts, ws \in SearchWordLists, x \in BOOLEAN}
          \cup {Some([op |-> "search_words_in_result", result |-> r, words |-> ws]) :
                   r \in SearchOutcomes, ws \in SearchWordLists}
    /\ call_result = None
    /\ IdleQuality /\ IdleTranscribe /\ FreshLimiter /\ IdleCallers
    /\ IdlePipeline /\ IdlePoll /\ IdleSweep
    /\ IdleSession

BasicWordSearch ==
    /\ call_args # None /\ call_result = None
    /\ Get(call_args).op = "_basic_word_search"
    /\ call_result' = Some(_basic_word_search(Get(call_args).text, Get(call_args).words))
    /\ UNCHANGED <<call_args, vars_not_call>>

SearchWordsInTranscript ==
    /\ call_args # None /\ call_result = None
    /\ Get(call_args).op = "search_words_in_transcript"
    /\ call_result' = Some(search_words_in_transcript(Get(call_args).text, Get(call_args).words, Get(call_args).word_search_raises))
    /\ UNCHANGED <<call_args, vars_not_call>>

SearchWordsInResult ==
    /\ call_args # None /\ call_result = None
    /\ Get(call_args).op = "search_words_in_result"
    /\ call_result' = Some(search_words_in_result(Get(call_args).result, Get(call_args).words))
    /\ UNCHANGED <<call_args, vars_not_call>>

NextSearch ==
    \/ BasicWordSearch
    \/ SearchWordsInTranscript
    \/ SearchWordsInResult

SpecSearch == InitSearch /\ [][NextSearch]_vars

Returns(op) == call_result # None /\ Get(call_args).op = op

\* The match records of a search result.
Records(results) == UNION {{results[w][i] : i \in 1..Len(results[w])} : w \in DOMAIN results}

\* C27: the match records search_words_in_transcript returns have the same
\* set of fields whether the native search ran or the local fallback ran
\* after the native search failed.
C27_SameShape ==
    Returns("search_words_in_transcript")
    => LET a == Get(call_args)
       IN  \A r1 \in Records(Get(call_result)) :
              \A r2 \in Records(search_words_in_transcript(a.text, a.words, ~a.word_search_raises)) :
                  DOMAIN r1 = DOMAIN r2

\* The offsets (0-based) at which `word` stands as a whole word in `text`,
\* case-insensitively: its characters, with no word character right before
\* or right after them.
Occurrences(text, word) ==
    {s \in 0..(Len(text) - Len(word)) :
        /\ \A j \in 1..Len(word) : LowerChar(text[s + j]) = LowerChar(word[j])
        /\ s = 0 \/ ~IsWordChar(text[s])
        /\ s + Len(word) = Len(text) \/ ~IsWordChar(text[s + Len(word) + 1])}

\* C28: for every requested word, occurring k times as a whole word
\* (case-insensitively) in the text, _basic_word_search returns exactly k
\* matches, each with count k, whose offsets lie within the text, delimit an
\* occurrence of the word and are pairwise non-overlapping; for an absent
\* word the list is empty.
C28_BasicWordSearch ==
    Returns("_basic_word_search")
    => LET text == Get(call_args).text
       IN  /\ DOMAIN Get(call_result) = WordSet(Get(call_args).words)
           /\ \A w \in WordSet(Get(call_args).words) :
                LET ms == Get(call_result)[w]
                    k == Cardinality(Occurrences(text, w))
                IN  /\ Len(ms) = k
                    /\ \A i \in 1..Len(ms) :
                          /\ ms[i].count = k
                          /\ 0 <= ms[i].start_char
                          /\ ms[i].start_char < ms[i].end_char
                          /\ ms[i].end_char <= Len(text)
                          /\ ms[i].end_char = ms[i].start_char + Len(w)
                          /\ ms[i].start_char \in Occurrences(text, w)
                    /\ \A i, j \in 1..Len(ms) : i < j => ms[i].end_char <= ms[j].start_char

\* C29: on a non-failed outcome with a non-empty text, search_words_in_result
\* returns an entry for every requested word, a non-empty list of matches
\* for a word that stands in the text and an empty list for a word that does
\* not; on a failed outcome or an empty text it returns the empty mapping.
C29_SearchInResult ==
    Returns("search_words_in_result")
    => LET result == Get(call_args).result
           words == WordSet(Get(call_args).words)
       IN  IF result.quality = "failed" \/ result.text = <<>>
           THEN Get(call_result) = <<>>
           ELSE /\ DOMAIN Get(call_result) = words
                /\ \A w \in words :
                      Get(call_result)[w] # <<>> <=> Occurrences(result.text, w) # {}

(***************************************************************************)
(* VoiceMessageHandler.get_statistics.  `stats` is self.stats; a quotient  *)
(* is kept as the pair of its numerator and denominator.                   *)
(***************************************************************************)
MaxMessages == 3

CounterKeys == {"messages_processed", "successful_transcriptions", "failed_transcriptions", "total_audio_duration", "total_processing_time"}

StoredCounters ==
    {[messages_processed |-> n, successful_transcriptions |-> s, failed_transcriptions |-> f,
      total_audio_duration |-> d * VoiceDurationMs, total_processing_time |-> p * 2] :
        n \in 0..MaxMessages, s \in 0..MaxMessages, f \in 0..MaxMessages, d \in 0..1, p \in 0..1}

Div(n, d) == [num |-> n, den |-> d]

\* stats[key] = value, the key added when the dict has not got it
SetKey(d, key, value) == [k \in DOMAIN d \cup {key} |-> IF k = key THEN value ELSE d[k]]

_with_derived(stats_dict) ==
    IF stats_dict.messages_processed > 0
    THEN SetKey(SetKey(SetKey(stats_dict,
                "success_rate", Div(stats_dict.successful_transcriptions, stats_dict.messages_processed)),
                "avg_processing_time", Div(stats_dict.total_processing_time, stats_dict.messages_processed)),
                "avg_audio_duration", Div(stats_dict.total_audio_duration, stats_dict.messages_processed))
    ELSE stats_dict

\* `stats = self.stats` in place of `stats = self.stats.copy()`: the derived
\* values are written into the stored dict.
get_statistics_no_copy(stored) == [returned |-> _with_derived(stored), stored |-> _with_derived(stored)]

\* What the call returns and what self.stats is after it.
get_statistics(stored) == [returned |-> _with_derived(stored), stored |-> stored]

InitStats ==
    /\ config = VoiceProcessingConfig
    /\ stats \in {c \in StoredCounters :
                     /\ c.successful_transcriptions + c.failed_transcriptions <= c.messages_processed
                     /\ c.successful_transcriptions + c.failed_transcriptions = 0
                           => c.total_audio_duration = 0 /\ c.total_processing_time = 0}
    /\ call_args = Some(stats)
    /\ call_result = None
    /\ pc = <<>> /\ msg = <<>> /\ temp_files = <<>> /\ disk = {} /\ created = <<>>
    /\ unlink_failed = <<>> /\ exc = <<>> /\ outcome = <<>>
    /\ cleanup_calls = <<>> /\ unlink_attempted = <<>> /\ stage_log = <<>>
    /\ IdleQuality /\ IdleTranscribe /\ FreshLimiter /\ IdleCallers
    /\ IdlePoll /\ IdleSweep
    /\ IdleSession

GetStatistics ==
    /\ call_result = None
    /\ call_result' = Some(get_statistics(stats).returned)
    /\ stats' = get_statistics(stats).stored
    /\ UNCHANGED <<pc, msg, temp_files, disk, created, unlink_failed, exc, outcome, cleanup_calls, unlink_attempted, stage_log>>
    /\ UNCHANGED <<call_args, vars_config, vars_quality, vars_transcribe, vars_limiter, vars_callers, vars_poll, vars_sweep, vars_session>>

NextStats == GetStatistics

SpecStats == InitStats /\ [][NextStats]_vars

\* C30: get_statistics returns the counters as they are stored plus, when
\* messages_processed is above zero, success_rate, avg_processing_time and
\* avg_audio_duration, each the quotient of its counter by messages_processed;
\* with zero messages it returns the counters alone; the stored counters keep
\* their keys and values.
C30_StatisticsSnapshot ==
    call_result # None
    => LET before == Get(call_args)
           returned == Get(call_result)
       IN  /\ stats = before
           /\ DOMAIN stats = CounterKeys
           /\ \A k \in CounterKeys : returned[k] = before[k]
           /\ IF before.messages_processed = 0
              THEN DOMAIN returned = CounterKeys
              ELSE /\ DOMAIN returned = CounterKeys \cup {"success_rate", "avg_processing_time", "avg_audio_duration"}
                   /\ returned.success_rate.den = before.messages_processed
                   /\ returned.success_rate.num = before.successful_transcriptions
                   /\ returned.avg_processing_time.den = before.messages_processed
                   /\ returned.avg_processing_time.num = before.total_processing_time
                   /\ returned.avg_audio_duration.den = before.messages_processed
                   /\ returned.avg_audio_duration.num = before.total_audio_duration

\* Two messages, one transcribed: success_rate is 1/2 and the stored dict has
\* its five counters.
C30_Witness ==
    /\ call_result # None
    /\ stats.messages_processed = 2
    /\ stats.successful_transcriptions = 1
    /\ Get(call_result).success_rate = Div(1, 2)
    /\ DOMAIN stats = CounterKeys

(***************************************************************************)
(* SpecDownload: one AudioProcessor.download_voice_message call.  The      *)
(* transport (file.download_to_drive) may raise before or after it wrote   *)
(* to the file, or return with the file created and holding any number of  *)
(* bytes, or return without a file.  Sizes are in bytes.                   *)
(***************************************************************************)
MaxDownloadBytes == 2

MimeTypes == {"audio/ogg", "audio/mpeg", "audio/mp4", "audio/wav", "audio/webm", "audio/opus", "text/plain"}

\* What download_to_drive does: whether it raises, and the file it leaves
\* at output_path (None: no file; Some(n): a file of n bytes).
TransportBehaviours == [raises : BOOLEAN, file : {None} \cup {Some(n) : n \in 0..MaxDownloadBytes}]

DownloadCalls == [key : 1..NumKeys, mime_type : {None} \cup {Some(m) : m \in MimeTypes}, transport : TransportBehaviours]

\* file.mime_type or "audio/ogg"
mime_type_or_default(mime_type) == IF mime_type = None THEN "audio/ogg" ELSE Get(mime_type)

\* The size check of the success log is the only read of the file:
\* output_path.stat() raises when there is no file and returns any size,
\* zero included, when there is one.
download_voice_message(call) ==
    LET path == output_path([key |-> call.key, mime_type |-> mime_type_or_default(call.mime_type)])
        left == [path |-> path, file |-> call.transport.file]
    IN  IF call.transport.raises
        THEN [raised |-> Some(Exception("Exception", MsgNetwork)), returned |-> None, disk |-> left]
        ELSE IF call.transport.file = None
             THEN [raised |-> Some(Exception("FileNotFoundError", <<"No", "such", "file">>)), returned |-> None, disk |-> left]
             ELSE [raised |-> None, returned |-> Some(path), disk |-> left]

InitDownload ==
    /\ config = VoiceProcessingConfig
    /\ call_args \in {Some(c) : c \in DownloadCalls}
    /\ call_result = None
    /\ IdleQuality /\ IdleTranscribe /\ FreshLimiter /\ IdleCallers
    /\ IdlePipeline /\ IdlePoll /\ IdleSweep
    /\ IdleSession

DownloadVoiceMessage ==
    /\ call_args # None
    /\ call_result = None
    /\ call_result' = Some(download_voice_message(Get(call_args)))
    /\ UNCHANGED <<call_args, vars_not_call>>

NextDownload == DownloadVoiceMessage

SpecDownload == InitDownload /\ [][NextDownload]_vars

\* C31: download_voice_message raises whenever the transport read fails or
\* no bytes were written to the local file; it returns a path only when the
\* file at that path exists and holds at least one byte.
C31_DownloadFails ==
    call_result # None
    => LET call == Get(call_args)
           res == Get(call_result)
           no_bytes == call.transport.file \in {None, Some(0)}
       IN /\ (call.transport.raises \/ no_bytes) => res.raised # None
          /\ res.returned # None
                => /\ res.disk.path = Get(res.returned)
                   /\ res.disk.file # None
                   /\ Get(res.disk.file) >= 1

(***************************************************************************)
(* C32: the order of the checks of _validate_audio_file                    *)
(***************************************************************************)
FileMissing(md) == ~md.exists
SizeOverMax(cfg, md) == md.size_bytes > cfg.max_file_size_mb * BytesPerMb
DurationBelowMin(cfg, md) == md.duration < cfg.min_duration_ms
DurationAboveMax(cfg, md) == md.duration > cfg.max_duration_ms

\* C32: _validate_audio_file checks in the order file-missing,
\* size-over-max, duration-below-min, duration-above-max; the error it
\* raises names a violation that holds, and no violation earlier in that
\* order holds with it.
C32_ValidationOrder ==
    t_pc = "validate_raised"
    => LET md == Get(t_metadata)
           m == Get(raised).msg
       IN /\ m \in {<<"Audio", "file", "not", "found">>, <<"File", "too", "large">>, <<"Audio", "too", "short">>, <<"Audio", "too", "long">>}
          /\ m = <<"Audio", "file", "not", "found">> => FileMissing(md)
          /\ m = <<"File", "too", "large">>
                => SizeOverMax(config, md) /\ ~FileMissing(md)
          /\ m = <<"Audio", "too", "short">>
                => /\ DurationBelowMin(config, md)
                   /\ ~FileMissing(md) /\ ~SizeOverMax(config, md)
          /\ m = <<"Audio", "too", "long">>
                => /\ DurationAboveMax(config, md)
                   /\ ~FileMissing(md) /\ ~SizeOverMax(config, md)
                   /\ ~DurationBelowMin(config, md)

\* A missing file whose metadata is also over the size limit and below the
\* minimum duration is reported as missing.
C32_Witness ==
    /\ t_pc = "validate_raised"
    /\ FileMissing(Get(t_metadata))
    /\ SizeOverMax(config, Get(t_metadata))
    /\ DurationBelowMin(config, Get(t_metadata))
    /\ Get(raised).msg = <<"Audio", "file", "not", "found">>

(***************************************************************************)
(* SpecConvert: one AudioProcessor.convert_and_optimize call.  An          *)
(* AudioSegment is its channel count, its frame rate, its length in        *)
(* milliseconds and its peak amplitude in percent of full scale.  Sizes    *)
(* are in bytes; a ratio is kept as numerator and denominator.             *)
(***************************************************************************)
MaxChannels == 2

FrameRates == {8000, 16000, 44100, 48000}
LengthsMs == {0, 5000}
Peaks == {0, 50, 100}
InputSizeBytes == 1000

AudioSegments == [channels : 1..MaxChannels, frame_rate : FrameRates, length_ms : LengthsMs, peak : Peaks]

\* decoded: what AudioSegment.from_file returns, None when it raises
\* CouldntDecodeError; export_ok: whether optimized_audio.export succeeds.
ConvertCalls == [input_path : {<<1, "ogg">>, <<1, "wav">>}, decoded : {None} \cup {Some(a) : a \in AudioSegments}, export_ok : BOOLEAN]

set_channels(audio, n) == [audio EXCEPT !.channels = n]
set_frame_rate(audio, r) == [audio EXCEPT !.frame_rate = r]
normalize(audio) == [audio EXCEPT !.peak = IF @ = 0 THEN 0 ELSE 100]
high_pass_filter(audio, cutoff) == audio

\* The mono downmix left out.
_optimize_audio_keeps_channels(audio) ==
    LET resampled == IF audio.frame_rate # 16000 THEN set_frame_rate(audio, 16000) ELSE audio
    IN  high_pass_filter(normalize(resampled), 100)

_optimize_audio(audio) ==
    LET mono == IF audio.channels > 1 THEN set_channels(audio, 1) ELSE audio
        resampled == IF mono.frame_rate # 16000 THEN set_frame_rate(mono, 16000) ELSE mono
    IN  high_pass_filter(normalize(resampled), 100)

\* export(..., format="wav", parameters=["-ar", "16000", "-ac", "1"]): the
\* encoder writes 16-bit samples at the rate and channel count of its
\* parameters, after a 44-byte header.
exported_file(audio) == [channels |-> 1, frame_rate |-> 16000, size_bytes |-> 44 + audio.length_ms * 32]

\* {**a, **b}
MergeDicts(a, b) == [k \in DOMAIN a \cup DOMAIN b |-> IF k \in DOMAIN b THEN b[k] ELSE a[k]]

convert_and_optimize(call) ==
    IF call.decoded = None
    THEN [raised |-> Some(Exception("ValueError", <<"Unsupported", "audio", "format">>)), returned |-> None, file |-> None]
    ELSE LET audio == Get(call.decoded)
             original_metadata == [duration |-> audio.length_ms, channels |-> audio.channels, frame_rate |-> audio.frame_rate, format |-> call.input_path[2]]
             optimized_audio == _optimize_audio(audio)
             output == with_suffix_wav(call.input_path)
             written == exported_file(optimized_audio)
             optimized_metadata == [duration |-> optimized_audio.length_ms, channels |-> optimized_audio.channels, frame_rate |-> optimized_audio.frame_rate, format |-> "wav", processing_time |-> 0, size_bytes |-> written.size_bytes, compression_ratio |-> <<written.size_bytes, InputSizeBytes>>]
         IN  IF ~call.export_ok
             THEN [raised |-> Some(Exception("Exception", <<"Export", "failed">>)), returned |-> None, file |-> None]
             ELSE [raised |-> None, returned |-> Some([path |-> output, metadata |-> MergeDicts(original_metadata, optimized_metadata)]), file |-> Some(written)]

InitConvert ==
    /\ config = VoiceProcessingConfig
    /\ call_args \in {Some(c) : c \in ConvertCalls}
    /\ call_result = None
    /\ IdleQuality /\ IdleTranscribe /\ FreshLimiter /\ IdleCallers
    /\ IdlePipeline /\ IdlePoll /\ IdleSweep
    /\ IdleSession

ConvertAndOptimize ==
    /\ call_args # None
    /\ call_result = None
    /\ call_result' = Some(convert_and_optimize(Get(call_args)))
    /\ UNCHANGED <<call_args, vars_not_call>>

NextConvert == ConvertAndOptimize

SpecConvert == InitConvert /\ [][NextConvert]_vars

ServiceError(b) ==
    IF b.raises # None THEN None
    ELSE IF Get(b.submitted).status = "error" THEN Get(b.submitted).error
    ELSE IF Get(b.submitted).status \in {"processing", "queued"} /\ Get(b.polled).status = "error" THEN Get(b.polled).error
    ELSE None

\* C34: whenever an attempt ends with the service reporting status `error`,
\* on the submit or after polling, the error of that attempt carries the
\* service's error message, and the retry classification is applied to that
\* message: after a service message matching a non-retryable pattern no
\* further attempt is made.
C34_ServiceMessageKept ==
    \A i \in 1..Len(svc_log) :
        ServiceError(svc_log[i]) # None
        => /\ Fails(svc_log[i])
           /\ Contains(ErrorOf(svc_log[i]).msg, Get(ServiceError(svc_log[i])))
           /\ MatchesNonRetryablePattern(Exception("Exception", Get(ServiceError(svc_log[i]))))
                 => i = Len(svc_log) /\ t_pc # "backoff"

\* C35: for every retry_attempts N >= 0 one _transcribe_with_retries call
\* invokes the service at most N times, and whenever the call raises, the
\* value raised is the error of the most recent service attempt.
C35_AttemptBudget ==
    /\ Len(svc_log) <= config.retry_attempts
    /\ t_pc = "retries_raised"
          => /\ Len(svc_log) >= 1
             /\ raised = Some(ErrorOf(svc_log[Len(svc_log)]))

(***************************************************************************)
(* C36: the slots of _request_semaphore                                    *)
(***************************************************************************)
\* The callers inside _rate_limit: queued on the semaphore or inside the
\* `async with` block.
InsideRateLimit == {c \in Callers : r_pc[c] \in {"waiting", "acquired", "sleeping"}}

\* C36: every caller that takes a slot of the semaphore gives it back when
\* _rate_limit exits, normally or by exception: the free slots and the
\* callers inside the `async with` block always add up to
\* concurrent_requests, at most concurrent_requests callers are inside the
\* block at once, and whenever no caller is inside _rate_limit every slot is
\* free.
C36_SlotConservation ==
    /\ sem_value + Cardinality(Holding) = config.concurrent_requests
    /\ sem_value >= 0
    /\ Cardinality(Holding) <= config.concurrent_requests
    /\ InsideRateLimit = {} => sem_value = config.concurrent_requests

\* Every caller has left _rate_limit, one of them by the cancellation of its
\* sleep and another by its end, and the slots are all free.
C36_Witness ==
    /\ InsideRateLimit = {}
    /\ \E c \in Callers : r_pc[c] = "cancelled"
    /\ \E c \in Callers : passed_at[c] # None
    /\ \A c \in Callers : r_pc[c] # "idle"
    /\ sem_value = config.concurrent_requests

\* C37: a transcribe_audio call passes the rate limiter, which records the
\* call's timestamp in _last_request_times, before the file is validated:
\* from the validation on the timestamp is in the log, and a call that the
\* validation rejected, which never reached the service, has left its
\* timestamp there.
C37_RateLimitBeforeValidation ==
    /\ t_pc \notin {"idle", "start"} => last_request_times = <<now>>
    /\ t_pc = "validate_raised"
          => /\ svc_log = <<>>
             /\ Len(last_request_times) = 1

\* The validation rejected a missing file; the call is in the log.
C37_Witness ==
    /\ t_pc = "validate_raised"
    /\ Get(raised).msg = <<"Audio", "file", "not", "found">>
    /\ svc_log = <<>>
    /\ last_request_times = <<now>>

(***************************************************************************)
(* C38: the counters on the exception path of process_voice_message        *)
(***************************************************************************)
\* The invocations whose outcome was built in the except block, and those
\* whose outcome transcribe_audio returned.
ExceptionPath == {i \in Invocations : exc[i] # None /\ outcome[i] # None}
TranscribedPath == {i \in Invocations : exc[i] = None /\ outcome[i] # None}
EnteredTry == {i \in Invocations : pc[i] \notin {"idle", "raised"}}

RECURSIVE SumOfOutcomes(_, _)
SumOfOutcomes(S, field) ==
    IF S = {} THEN 0
    ELSE LET i == CHOOSE j \in S : TRUE
         IN  Get(outcome[i])[field] + SumOfOutcomes(S \ {i}, field)

\* C38: an invocation on the exception path changes messages_processed and
\* failed_transcriptions only, each by one: successful_transcriptions,
\* total_audio_duration and total_processing_time hold what the invocations
\* whose transcription returned have added, and nothing from an invocation
\* whose outcome was built from a caught exception.
C38_ExceptionPathCounters ==
    /\ stats.messages_processed = Cardinality(EnteredTry)
    /\ stats.failed_transcriptions = Cardinality(ExceptionPath) + Cardinality({i \in TranscribedPath : Get(outcome[i]).quality = "failed"})
    /\ stats.successful_transcriptions = Cardinality({i \in TranscribedPath : Get(outcome[i]).quality # "failed"})
    /\ stats.total_audio_duration = SumOfOutcomes(TranscribedPath, "duration")
    /\ stats.total_processing_time = SumOfOutcomes(TranscribedPath, "processing_time")

\* One invocation returned the outcome of a failed conversion, another a
\* transcription: the totals hold the transcription's values only.
C38_Witness ==
    /\ \E i \in ExceptionPath :
          /\ pc[i] = "returned"
          /\ stage_log[i] = <<"download_ok", "convert_failed">>
    /\ \E j \in TranscribedPath : pc[j] = "returned"
    /\ Cardinality(TranscribedPath) = 1
    /\ stats.failed_transcriptions >= 1
    /\ stats.total_audio_duration = audio_metadata.duration

(***************************************************************************)
(* SpecSession: the interview session of one user of AIInterviewerBot      *)
(* (src/telegram_bot.py) under the text and voice messages the bot         *)
(* handles.  The application is built without concurrent_updates, so the   *)
(* handlers run one after the other: an action is one handler, with the    *)
(* transcription outcome and the language model's response as its inputs.  *)
(* Replies to the user change no state and are left out.  The handlers     *)
(* only append to conversation_history, and only its tail is read (to      *)
(* build the context of the language model): the history is kept as its    *)
(* length and its most recent entries.                                     *)
(***************************************************************************)
MaxHandled == 9
HistoryWindow == 2

TransitionCompleteness == 80

\* list(InterviewStage), by value
InterviewStage == <<"greeting", "profiling", "essence", "operations", "expertise_map", "failure_modes", "mastery", "growth_path", "wrap_up">>

StageValues == {InterviewStage[k] : k \in 1..Len(InterviewStage)}

\* list(InterviewStage).index(stage)
StageIndex(stage) == CHOOSE k \in 1..Len(InterviewStage) : InterviewStage[k] = stage

\* InterviewSession as _start_interview creates it; __post_init__ fills
\* stage_completeness with zeros.
NewSession == [current_stage |-> "greeting", stage_completeness |-> [st \in StageValues |-> 0], conversation_history |-> [len |-> 0, recent |-> <<>>], question_depth |-> 1, engagement_level |-> "medium"]

\* list.append on the history.
AppendToHistory(history, message) ==
    LET all == Append(history.recent, message)
    IN  [len |-> history.len + 1, recent |-> IF Len(all) > HistoryWindow THEN Tail(all) ELSE all]

\* InterviewSession.add_message; `voice` tells whether the metadata is the
\* voice metadata of handle_voice_message.
add_message(session, role, voice) == [session EXCEPT !.conversation_history = AppendToHistory(@, [role |-> role, stage |-> session.current_stage, voice |-> voice])]

ResponseData(stage, depth, completeness, engagement, error) == [interview_stage |-> stage, metadata |-> [question_depth |-> depth, completeness |-> completeness, engagement_level |-> engagement], error |-> error]

\* The fallback of _parse_json_response.
ParseFallback == ResponseData("greeting", 1, 10, "medium", Some("JSON_PARSE_FAILED"))

_create_fallback_response(session) == ResponseData(session.current_stage, session.question_depth, session.stage_completeness[session.current_stage], session.engagement_level, Some("API_ERROR"))

\* What generate_interview_response may return: a parsed response, which
\* names the current stage, or one of the fallbacks.
LLMResponses(session) ==
    {ResponseData(session.current_stage, 2, c, "high", None) : c \in {50, TransitionCompleteness}}
    \cup {ParseFallback, _create_fallback_response(session)}

\* The stage is advanced by two.
_handle_stage_transition_skips(session, response_data) ==
    LET current_stage_index == StageIndex(session.current_stage)
    IN  IF current_stage_index >= Len(InterviewStage) - 1
        THEN [session |-> session, completed |-> TRUE]
        ELSE LET moved == [session EXCEPT !.current_stage = InterviewStage[current_stage_index + 2], !.question_depth = 1]
             IN  [session |-> add_message(moved, "assistant", FALSE), completed |-> FALSE]

\* With Python's 0-based index i, `i >= len(InterviewStage) - 1` is
\* `k >= Len(InterviewStage)` for the 1-based k.
_handle_stage_transition(session, response_data) ==
    LET current_stage_index == StageIndex(session.current_stage)
    IN  IF current_stage_index >= Len(InterviewStage)
        THEN [session |-> session, completed |-> TRUE]
        ELSE LET moved == [session EXCEPT !.current_stage = InterviewStage[current_stage_index + 1], !.question_depth = 1]
             IN  [session |-> add_message(moved, "assistant", FALSE), completed |-> FALSE]

\* The part handle_message and handle_voice_message have in common, from
\* the response of the language model on.
_process_response(session, response_data) ==
    LET metadata == response_data.metadata
        updated == [session EXCEPT !.question_depth = metadata.question_depth, !.engagement_level = metadata.engagement_level, !.stage_completeness[response_data.interview_stage] = metadata.completeness]
    IN  IF metadata.completeness >= TransitionCompleteness
        THEN _handle_stage_transition(updated, response_data)
        ELSE [session |-> add_message(updated, "assistant", FALSE), completed |-> FALSE]

\* A handler's effect: the session it leaves, whether it called the language
\* model, and whether it completed the interview.
Handled(session, llm_called, completed) == [session |-> session, llm_called |-> llm_called, completed |-> completed]

handle_message(session, response_data) ==
    LET r == _process_response(add_message(session, "user", FALSE), response_data)
    IN  Handled(r.session, TRUE, r.completed)

\* transcription_result.text.strip() is not empty
NotBlank(text) == \E k \in 1..Len(text) : text[k] # " "

\* The test of the outcome's quality left out.
handle_voice_message_ignores_failure(session, transcription, response_data) ==
    IF transcription = None THEN Handled(session, FALSE, FALSE)
    ELSE LET r == _process_response(add_message(session, "user", TRUE), response_data)
         IN  Handled(r.session, TRUE, r.completed)

\* transcription is None when process_voice_message raises: the except
\* block of the handler replies and returns.
handle_voice_message(session, transcription, response_data) ==
    IF transcription = None THEN Handled(session, FALSE, FALSE)
    ELSE IF Get(transcription).quality = "failed" THEN Handled(session, FALSE, FALSE)
    ELSE IF ~NotBlank(Get(transcription).text) THEN Handled(session, FALSE, FALSE)
    ELSE LET r == _process_response(add_message(session, "user", TRUE), response_data)
         IN  Handled(r.session, TRUE, r.completed)

\* What process_voice_message may give the handler: it raises (None), or
\* returns the outcome of a transcription or of a failed stage.
VoiceOutcomes ==
    {None}
    \cup {Some(r) : r \in TranscribeResults}
    \cup {Some(_process_transcript_result(VoiceProcessingConfig, Transcript("completed", None, Some(<<" ">>), Some(90)), audio_metadata, 2)),
          Some(VoiceTranscriptionResult(<<>>, 0, "failed", Some(<<"Download", "failed">>), voice_metadata, 0))}

InitSession ==
    /\ config = VoiceProcessingConfig
    /\ sessions = None
    /\ last_handled = None
    /\ updates_handled = 0
    /\ IdleQuality /\ IdleTranscribe /\ FreshLimiter /\ IdleCallers
    /\ IdlePipeline /\ IdlePoll /\ IdleSweep /\ IdleCall

vars_not_session == <<vars_config, vars_quality, vars_transcribe, vars_limiter, vars_callers, vars_pipeline, vars_poll, vars_sweep, vars_call>>

\* _start_interview and _begin_interview: the session is created and the
\* first question is added to its history.
StartInterview ==
    /\ sessions = None
    /\ sessions' = Some(add_message(NewSession, "assistant", FALSE))
    /\ UNCHANGED <<last_handled, updates_handled, vars_not_session>>

\* reset_command
ResetCommand ==
    /\ sessions # None
    /\ sessions' = None
    /\ UNCHANGED <<last_handled, updates_handled, vars_not_session>>

\* handle_message: without a session it replies and returns.
HandleMessage ==
    /\ updates_handled < MaxHandled
    /\ updates_handled' = updates_handled + 1
    /\ IF sessions = None
       THEN /\ last_handled' = Some([kind |-> "text", transcription |-> None, before |-> None, after |-> None, response |-> None, llm_called |-> FALSE, completed |-> FALSE])
            /\ UNCHANGED sessions
       ELSE \E response_data \in LLMResponses(add_message(Get(sessions), "user", FALSE)) :
               LET h == handle_message(Get(sessions), response_data)
               IN  /\ sessions' = Some(h.session)
                   /\ last_handled' = Some([kind |-> "text", transcription |-> None, before |-> sessions, after |-> Some(h.session), response |-> IF h.llm_called THEN Some(response_data) ELSE None, llm_called |-> h.llm_called, completed |-> h.completed])
    /\ UNCHANGED vars_not_session

\* handle_voice_message, with the voice handler configured.
HandleVoiceMessage ==
    /\ updates_handled < MaxHandled
    /\ updates_handled' = updates_handled + 1
    /\ IF sessions = None
       THEN /\ last_handled' = Some([kind |-> "voice", transcription |-> None, before |-> None, after |-> None, response |-> None, llm_called |-> FALSE, completed |-> FALSE])
            /\ UNCHANGED sessions
       ELSE \E transcription \in VoiceOutcomes :
            \E response_data \in LLMResponses(add_message(Get(sessions), "user", TRUE)) :
               LET h == handle_voice_message(Get(sessions), transcription, response_data)
               IN  /\ sessions' = Some(h.session)
                   /\ last_handled' = Some([kind |-> "voice", transcription |-> transcription, before |-> sessions, after |-> Some(h.session), response |-> IF h.llm_called THEN Some(response_data) ELSE None, llm_called |-> h.llm_called, completed |-> h.completed])
    /\ UNCHANGED vars_not_session

NextSession ==
    \/ StartInterview
    \/ ResetCommand
    \/ HandleMessage
    \/ HandleVoiceMessage

SpecSession == InitSession /\ [][NextSession]_vars

\* The last message handled was a voice message, handled with a session.
VoiceHandled == last_handled # None /\ Get(last_handled).kind = "voice" /\ Get(last_handled).before # None

\* C39: in handle_voice_message a failed transcription outcome leaves the
\* session as it was (history, stage, depth and completeness) and the
\* language model is not called; the recognized text is appended to the
\* history and sent to the language model only for an outcome that is not
\* failed and whose text is not blank.
C39_FailedVoiceLeavesSession ==
    VoiceHandled
    => LET h == Get(last_handled)
           before == Get(h.before)
           after == Get(h.after)
           failed == h.transcription = None \/ Get(h.transcription).quality = "failed"
       IN /\ failed => after = before /\ ~h.llm_called
          /\ (h.llm_called \/ after # before)
                => /\ ~failed
                   /\ NotBlank(Get(h.transcription).text)
                   /\ after.conversation_history.len > before.conversation_history.len
                   /\ \E k \in 1..Len(after.conversation_history.recent) : after.conversation_history.recent[k] = [role |-> "user", stage |-> before.current_stage, voice |-> TRUE]

\* A failed outcome was handled in a session with history, which it left
\* unchanged.
C39_Witness ==
    /\ VoiceHandled
    /\ Get(last_handled).transcription # None
    /\ Get(Get(last_handled).transcription).quality = "failed"
    /\ Get(Get(last_handled).before).conversation_history.len >= 3
    /\ sessions = Get(last_handled).before
    /\ ~Get(last_handled).llm_called

\* The last message handled, text or voice, was handled with a session.
MessageHandled == last_handled # None /\ Get(last_handled).before # None

\* C40: over any sequence of handled text and voice messages the stage of
\* a session never moves backward in the nine-stage order and advances by at
\* most one stage per handled message, on a response whose completeness
\* reaches the threshold; at the last stage such a response leaves the stage
\* where it is and the interview is completed.
C40_StageMonotone ==
    MessageHandled
    => LET h == Get(last_handled)
           from == StageIndex(Get(h.before).current_stage)
           to == StageIndex(Get(h.after).current_stage)
           reached == h.response # None /\ Get(h.response).metadata.completeness >= TransitionCompleteness
       IN /\ Len(InterviewStage) = 9
          /\ from <= to /\ to <= from + 1
          /\ ~reached => to = from /\ ~h.completed
          /\ (reached /\ from < Len(InterviewStage)) => to = from + 1 /\ ~h.completed
          /\ (reached /\ from = Len(InterviewStage)) => to = from /\ h.completed

\* The session went through the nine stages and the interview was completed
\* at wrap_up.
C40_Witness ==
    /\ MessageHandled
    /\ Get(last_handled).completed
    /\ Get(sessions).current_stage = "wrap_up"
    /\ Get(Get(last_handled).before).current_stage = "wrap_up"

====
